---- MODULE Spec2Model ----
(***************************************************************************)
(* A model of the excel-l10n markup round-trip pipeline: extraction of a   *)
(* cell (plain text or HTML), sentence segmentation, XLIFF export with     *)
(* placeholder protection, XLIFF parsing, translation and merge.           *)
(*                                                                         *)
(* Texts are strings.  Positions are the 0-based positions of the source   *)
(* (String.prototype.slice, indexOf, substring); Slice(s, a, b) is         *)
(* s.slice(a, b).                                                          *)
(***************************************************************************)
EXTENDS Naturals, Integers, Sequences, FiniteSets, TLC

(***************************************************************************)
(* Strings                                                                 *)
(***************************************************************************)

\* s.charAt(i)
CharAt(s, i) == IF i >= 0 /\ i < Len(s) THEN SubSeq(s, i + 1, i + 1) ELSE ""

\* s.slice(a, b) for 0 <= a, b <= s.length
Slice(s, a, b) == IF a >= b THEN "" ELSE SubSeq(s, a + 1, b)

\* s.slice(a)
SliceFrom(s, a) == Slice(s, a, Len(s))

\* s.startsWith(p, i)
StartsWithAt(s, p, i) ==
  /\ i + Len(p) <= Len(s)
  /\ Slice(s, i, i + Len(p)) = p

\* the least number of a non-empty set of numbers
Min(S) == CHOOSE i \in S : \A j \in S : i <= j

\* the least number of a set of numbers, or -1 when the set is empty
MinOrNone(S) == IF S = {} THEN -1 ELSE Min(S)

\* s.indexOf(needle, from): the first position >= from where needle occurs, or -1
IndexOf(s, needle, from) ==
  MinOrNone({ i \in from..(Len(s) - Len(needle)) : SubSeq(s, i + 1, i + Len(needle)) = needle })

\* s.includes(needle)
Includes(s, needle) == IndexOf(s, needle, 0) # -1

Lower == {"a","b","c","d","e","f","g","h","i","j","k","l","m",
          "n","o","p","q","r","s","t","u","v","w","x","y","z"}
Upper == {"A","B","C","D","E","F","G","H","I","J","K","L","M",
          "N","O","P","Q","R","S","T","U","V","W","X","Y","Z"}
Digit == {"0","1","2","3","4","5","6","7","8","9"}
\* \s of a regular expression and the characters String.prototype.trim removes
Whitespace == {" ", "\t", "\n", "\r"}
\* \w
WordChar == Lower \cup Upper \cup Digit \cup {"_"}

\* the number of characters of s, from position i on, that lie in class
RECURSIVE RunLen(_, _, _)
RunLen(s, i, class) ==
  IF i < Len(s) /\ CharAt(s, i) \in class THEN 1 + RunLen(s, i + 1, class) ELSE 0

\* the number of whitespace characters that end s
RECURSIVE TrailingWs(_)
TrailingWs(s) ==
  IF Len(s) > 0 /\ CharAt(s, Len(s) - 1) \in Whitespace
  THEN 1 + TrailingWs(Slice(s, 0, Len(s) - 1)) ELSE 0

\* s.trim()
Trim(s) ==
  IF RunLen(s, 0, Whitespace) = Len(s) THEN ""
  ELSE Slice(s, RunLen(s, 0, Whitespace), Len(s) - TrailingWs(s))

\* haystack.split(needle).join(replacement), for a non-empty needle
RECURSIVE rAll(_, _, _), rAllAt(_, _, _, _)
rAll(haystack, needle, replacement) ==
  rAllAt(haystack, needle, replacement, IndexOf(haystack, needle, 0))
\* i is the first occurrence of needle in haystack, or -1
rAllAt(haystack, needle, replacement, i) ==
  IF i = -1 THEN haystack
  ELSE Slice(haystack, 0, i) \o replacement
       \o rAll(SliceFrom(haystack, i + Len(needle)), needle, replacement)

\* parts.join('')
RECURSIVE Join(_)
Join(parts) == IF parts = <<>> THEN "" ELSE Head(parts) \o Join(Tail(parts))

\* the decimal digits of a number, as `${n}` prints it
RECURSIVE Digits(_)
Digits(n) ==
  IF n < 10 THEN SubSeq("0123456789", n + 1, n + 1)
  ELSE Digits(n \div 10) \o Digits(n % 10)

\* An optional value: Nothing is undefined, Some(v) a value that is present
Nothing == [some |-> FALSE]
Some(v) == [some |-> TRUE, v |-> v]

(***************************************************************************)
(* Regular expressions.  A RegExp object is [src, global, lastIndex]; src  *)
(* names one of the patterns the program compiles.  Search(src, s, from)   *)
(* is the leftmost match of the pattern in s starting at or after from:    *)
(* [index, end], with index = -1 when there is none.                       *)
(***************************************************************************)

NoMatch == [index |-> -1, end |-> -1]

UpperSeq == "ABCDEFGHIJKLMNOPQRSTUVWXYZ"
LowerSeq == "abcdefghijklmnopqrstuvwxyz"

\* one character, lower-cased (the i flag compares this way)
LowerCh(c) ==
  IF c \in Upper THEN CharAt(LowerSeq, IndexOf(UpperSeq, c, 0)) ELSE c

RECURSIVE ToLower(_)
ToLower(s) == IF s = "" THEN "" ELSE LowerCh(CharAt(s, 0)) \o ToLower(SliceFrom(s, 1))

\* the sentence punctuation of builtinRulesFor: [.!?;]
SentencePunct == {".", "!", "?", ";"}

\* /[.!?;]+\)?”?»?\s*$/ matched at p: the end of the match, or -1.
\* (The optional closing quote marks are outside the ASCII alphabet of the model.)
\* a is the end of the punctuation: an optional ")" and then only whitespace
\* may follow it
ClosesText(s, a) ==
  \/ a + RunLen(s, a, Whitespace) = Len(s)
  \/ CharAt(s, a) = ")" /\ a + 1 + RunLen(s, a + 1, Whitespace) = Len(s)
BuiltinBeforeAt(s, p) ==
  IF RunLen(s, p, SentencePunct) > 0 /\ ClosesText(s, p + RunLen(s, p, SentencePunct))
  THEN Len(s) ELSE -1

\* /^\s*\(?“?«?[A-Z0-9]/ matched at p: the end of the match, or -1
\* a is the end of the leading whitespace: an optional "(" and then a capital
\* letter or a digit
OpensSentence(s, a) ==
  IF CharAt(s, a) = "(" /\ CharAt(s, a + 1) \in Upper \cup Digit THEN a + 2
  ELSE IF CharAt(s, a) \in Upper \cup Digit THEN a + 1
  ELSE -1
BuiltinAfterAt(s, p) ==
  IF p # 0 THEN -1 ELSE OpensSentence(s, RunLen(s, 0, Whitespace))

\* the abbreviations of builtinRulesFor
Abbreviations == {"mr", "mrs", "ms", "dr", "prof", "sr", "jr", "vs", "etc"}

\* /(Mr|Mrs|Ms|Dr|Prof|Sr|Jr|vs|etc)\.$/i matched at p: the end of the match, or -1
AbbrevAt(s, p) ==
  IF Len(s) - p >= 3 /\ Len(s) - p <= 5 /\ CharAt(s, Len(s) - 1) = "."
     /\ ToLower(Slice(s, p, Len(s) - 1)) \in Abbreviations
  THEN Len(s) ELSE -1

\* /\{\d+\}/ matched at p: the end of the match, or -1
BracedNumberAt(s, p) ==
  IF CharAt(s, p) = "{" /\ RunLen(s, p + 1, Digit) > 0
     /\ CharAt(s, p + 1 + RunLen(s, p + 1, Digit)) = "}"
  THEN p + RunLen(s, p + 1, Digit) + 2 ELSE -1

\* the characters of s other than "]"
NotBracket(s) == { c \in { CharAt(s, i) : i \in 0..Len(s) } : c # "]" /\ c # "" }

\* [^\]]+\]\] from d, n being the length of the run of [^\]]: the end, or -1
MarkEnd(s, d, n) == IF n > 0 /\ StartsWithAt(s, "]]", d + n) THEN d + n + 2 ELSE -1

\* /\[\[ph:[^\]]+\]\]/ matched at p: the end, or -1
PhMarkAt(s, p) ==
  IF StartsWithAt(s, "[[ph:", p)
  THEN MarkEnd(s, p + 5, RunLen(s, p + 5, NotBracket(s))) ELSE -1

\* PLACEHOLDER_RE of the pseudo-translator, /(\[\[ph:[^\]]+\]\]|\{\d+\}|%s)/,
\* matched at p: the end, or -1
PseudoPlaceholderAt(s, p) ==
  IF PhMarkAt(s, p) # -1 THEN PhMarkAt(s, p)
  ELSE IF BracedNumberAt(s, p) # -1 THEN BracedNumberAt(s, p)
  ELSE IF StartsWithAt(s, "%s", p) THEN p + 2
  ELSE -1

\* PLACEHOLDER_RE of the validator, /(\{\d+\}|\[\[ph:[^\]]+\]\])/, matched at p:
\* the end, or -1
ListedPlaceholderAt(s, p) ==
  IF BracedNumberAt(s, p) # -1 THEN BracedNumberAt(s, p) ELSE PhMarkAt(s, p)

\* the end of the match at p of one of the patterns the program compiles, or -1
MatchAt(src, s, p) ==
  CASE src = "builtinBefore" -> BuiltinBeforeAt(s, p)
    [] src = "builtinAfter"  -> BuiltinAfterAt(s, p)
    [] src = "abbrev"        -> AbbrevAt(s, p)
    [] src = "\\{\\d+\\}"    -> BracedNumberAt(s, p)
    [] src = "%s"            -> IF StartsWithAt(s, "%s", p) THEN p + 2 ELSE -1
    [] src = "\\d+"          -> IF RunLen(s, p, Digit) > 0 THEN p + RunLen(s, p, Digit) ELSE -1
    [] src = ""              -> p
    [] src = "\\.$"          -> IF CharAt(s, p) = "." /\ p + 1 = Len(s) THEN p + 1 ELSE -1
    [] src = "^\\s"          -> IF p = 0 /\ CharAt(s, 0) \in Whitespace THEN 1 ELSE -1
    [] src = "pseudoPlaceholder" -> PseudoPlaceholderAt(s, p)
    [] src = "listedPlaceholder" -> ListedPlaceholderAt(s, p)

\* the match found at index, index being -1 when there is none
MatchFrom(src, s, index) ==
  IF index = -1 THEN NoMatch ELSE [index |-> index, end |-> MatchAt(src, s, index)]

Search(src, s, from) ==
  MatchFrom(src, s, MinOrNone({ p \in from..Len(s) : MatchAt(src, s, p) # -1 }))

\* new RegExp(src, flags)
NewRegExp(src, global) == [src |-> src, global |-> global, lastIndex |-> 0]

\* re.test(s): [found, re], re being the object after the call.  Without the g
\* flag the search starts at 0 and lastIndex is left alone; with it the search
\* starts at lastIndex, which becomes the end of the match, or 0 when none.
TestResult(re, m) ==
  [found |-> m.index # -1,
   re    |-> IF re.global
             THEN [re EXCEPT !.lastIndex = IF m.index # -1 THEN m.end ELSE 0]
             ELSE re]
RegExpTest(re, s) ==
  TestResult(re, Search(re.src, s, IF re.global THEN re.lastIndex ELSE 0))

(***************************************************************************)
(* Segmenter                                                               *)
(***************************************************************************)

\* builtinRulesFor: the break rule first, then the abbreviation no-break rule
builtinRulesFor(lang) ==
  << [break  |-> TRUE,
      before |-> NewRegExp("builtinBefore", FALSE),
      after  |-> NewRegExp("builtinAfter", FALSE)],
     [break  |-> FALSE,
      before |-> NewRegExp("abbrev", FALSE),
      after  |-> NewRegExp("builtinAfter", FALSE)] >>

\* rule.before.test(left) && rule.after.test(right): [found, rule], rule being
\* the rule with its two expressions as the tests left them; after is tested
\* only when before matched
RuleTested(rule, b, right) ==
  IF ~b.found THEN [found |-> FALSE, rule |-> [rule EXCEPT !.before = b.re]]
  ELSE [found |-> RegExpTest(rule.after, right).found,
        rule  |-> [rule EXCEPT !.before = b.re,
                               !.after = RegExpTest(rule.after, right).re]]
RuleTest(rule, left, right) == RuleTested(rule, RegExpTest(rule.before, left), right)

\* The rule loop of segmentTextByRules at one boundary: rules k.. of the bundle in
\* order; the first rule whose before and after both test true decides: "break",
\* "nobreak", or "none" when no rule matches.  [decision, rules], rules being
\* the rules of the bundle as the tests left them.
RECURSIVE DecideAt(_, _, _, _)
Decided(rules, k, left, right, t) ==
  IF t.found
  THEN [decision |-> IF rules[k].break THEN "break" ELSE "nobreak",
        rules    |-> [rules EXCEPT ![k] = t.rule]]
  ELSE DecideAt([rules EXCEPT ![k] = t.rule], k + 1, left, right)
DecideAt(rules, k, left, right) ==
  IF k > Len(rules) THEN [decision |-> "none", rules |-> rules]
  ELSE Decided(rules, k, left, right, RuleTest(rules[k], left, right))

\* the boundary loop of segmentTextByRules over the boundaries lo..hi in
\* order: [cuts, rules], cuts being the positions pushed and rules the rules
\* as the loop left them.  The boundaries are taken half by half, the second
\* half with the rules as the first half left them.
RECURSIVE ScanBoundaries(_, _, _, _)
ScanOne(i, d) ==
  [cuts |-> IF d.decision = "break" THEN << i >> ELSE <<>>, rules |-> d.rules]
ScanBoth(first, second) ==
  [cuts |-> first.cuts \o second.cuts, rules |-> second.rules]
ScanHalves(text, first, mid, hi) ==
  ScanBoth(first, ScanBoundaries(text, first.rules, mid + 1, hi))
ScanBoundaries(text, rules, lo, hi) ==
  IF lo > hi THEN [cuts |-> <<>>, rules |-> rules]
  ELSE IF lo = hi
  THEN ScanOne(lo, DecideAt(rules, 1, Slice(text, 0, lo), SliceFrom(text, lo)))
  ELSE ScanHalves(text, ScanBoundaries(text, rules, lo, (lo + hi) \div 2),
                  (lo + hi) \div 2, hi)

\* cutPositions of segmentTextByRules: the boundaries 1..length-1 where the
\* decision is to break, in order
CutPositions(text, rules) == ScanBoundaries(text, rules, 1, Len(text) - 1).cuts

\* the rules of the bundle after segmentTextByRules(text, bundle): the empty
\* text returns before the loop
RulesAfter(text, rules) ==
  IF text = "" THEN rules ELSE ScanBoundaries(text, rules, 1, Len(text) - 1).rules

\* the slicing loop of segmentTextByRules over [...cutPositions, text.length]
RECURSIVE SliceSegments(_, _, _, _), PushSegment(_, _, _, _, _)
SliceSegments(text, cuts, prev, idx) ==
  IF cuts = <<>> THEN <<>>
  ELSE PushSegment(text, cuts, prev, idx, Trim(Slice(text, prev, Head(cuts))))
\* s is text.slice(prev, pos).trim(), pos being the first of cuts
PushSegment(text, cuts, prev, idx, s) ==
  IF s # ""
  THEN << [id |-> "s" \o Digits(idx), source |-> s, start |-> Some(prev),
           end |-> Some(Head(cuts))] >>
       \o SliceSegments(text, Tail(cuts), Head(cuts), idx + 1)
  ELSE SliceSegments(text, Tail(cuts), Head(cuts), idx)

\* the segments as the slicing loop left them, none included
SegmentsAsSliced(text, segments) == segments

\* if (!segments.length) segments.push({ id: 's0', source: text, start: 0, end: text.length })
WholeTextIfNone(text, segments) ==
  IF segments = <<>>
  THEN << [id |-> "s0", source |-> text, start |-> Some(0), end |-> Some(Len(text))] >>
  ELSE segments

segmentTextByRules(text, bundle) ==
  IF text = "" THEN << [id |-> "", source |-> "", start |-> Nothing, end |-> Nothing] >>
  ELSE WholeTextIfNone(text,
         SliceSegments(text, CutPositions(text, bundle) \o << Len(text) >>, 0, 0))

\* segmentUnits for one unit u, with no SRX file configured
\* u.segments = segs.map((s, i) => ({ id: `${u.id}_s${i}`, source: s.source, ... }))
WithSegments(u, segs) ==
  [u EXCEPT !.segments =
     [i \in 1..Len(segs) |->
        [id |-> u.id \o "_s" \o Digits(i - 1), source |-> segs[i].source,
         target |-> Nothing, start |-> segs[i].start, end |-> segs[i].end]]]
segmentUnit(u, enabled) ==
  IF ~enabled
  THEN [u EXCEPT !.segments =
          << [id |-> u.id \o "_s0", source |-> u.source, target |-> Nothing,
              start |-> Nothing, end |-> Nothing] >>]
  ELSE WithSegments(u, segmentTextByRules(u.source, builtinRulesFor("en")))

(***************************************************************************)
(* SRX rules.  An SRX file, as fast-xml-parser reads it, is [readable,     *)
(* languagerules, languagemaps]: a languagerule is [name, rule], a rule    *)
(* [break, beforebreak, afterbreak] with optional patterns, a languagemap  *)
(* [languagepattern, languagerulename].                                    *)
(***************************************************************************)

\* the pattern sources new RegExp rejects with a SyntaxError
Uncompilable == {"("}

\* r.beforebreak ?? ''
PatternOr(p) == IF p.some THEN p.v ELSE ""

\* the rule compiled with the g flag on its two expressions
CompiledGlobal(r) ==
  [break  |-> r.break = "yes",
   before |-> NewRegExp(PatternOr(r.beforebreak), TRUE),
   after  |-> NewRegExp(PatternOr(r.afterbreak), TRUE)]

\* { break: br, before: new RegExp(before), after: new RegExp(after) }: the
\* expressions are compiled without flags
CompiledRule(r) ==
  [break  |-> r.break = "yes",
   before |-> NewRegExp(PatternOr(r.beforebreak), FALSE),
   after  |-> NewRegExp(PatternOr(r.afterbreak), FALSE)]

\* the rule loop of loadSrxFromFile: the rules compiled in order; a rule with
\* a pattern that does not compile is ignored
RECURSIVE CompileRules(_)
CompileRules(ruleList) ==
  IF ruleList = <<>> THEN <<>>
  ELSE (IF PatternOr(Head(ruleList).beforebreak) \in Uncompilable
           \/ PatternOr(Head(ruleList).afterbreak) \in Uncompilable
        THEN <<>>
        ELSE << CompiledRule(Head(ruleList)) >>)
       \o CompileRules(Tail(ruleList))

\* loadSrxFromFile: { map, rules }, rules being the properties set on the
\* object in the order of the file; Nothing when reading or parsing throws
loadSrxFromFile(file) ==
  IF ~file.readable THEN Nothing
  ELSE Some([map   |-> file.languagemaps,
             rules |-> [k \in DOMAIN file.languagerules |->
                          [name  |-> file.languagerules[k].name,
                           rules |-> CompileRules(file.languagerules[k].rule)]]])

\* the function-valued properties an object literal inherits from
\* Object.prototype, each with the length of the function
InheritedLength ==
  [n \in {"constructor", "hasOwnProperty", "toString", "valueOf"} |->
     IF n \in {"constructor", "hasOwnProperty"} THEN 1 ELSE 0]

\* srx.rules[name] || null: the array last assigned to the property, else the
\* inherited function of that name, else null
PropertyOf(rules, name) ==
  IF \E k \in DOMAIN rules : rules[k].name = name
  THEN [kind |-> "array",
        rules |-> rules[CHOOSE k \in DOMAIN rules :
                          /\ rules[k].name = name
                          /\ \A j \in DOMAIN rules : rules[j].name = name => j <= k].rules]
  ELSE IF name \in DOMAIN InheritedLength
  THEN [kind |-> "function", length |-> InheritedLength[name]]
  ELSE [kind |-> "null"]

\* new RegExp(pattern, 'i').test(locale) for a pattern that is .* or a run of
\* letters and hyphens
LanguagePatternTest(pattern, locale) ==
  pattern = ".*" \/ Includes(ToLower(locale), ToLower(pattern))

\* the loop of pickRuleSetForLocale from map entry k on: the index of the
\* first entry whose pattern matches the locale, 0 when there is none; an
\* entry whose pattern does not compile is ignored
RECURSIVE PickedMap(_, _, _)
PickedMap(locale, srx, k) ==
  IF k > Len(srx.map) THEN 0
  ELSE IF srx.map[k].languagepattern \notin Uncompilable
          /\ LanguagePatternTest(srx.map[k].languagepattern, locale)
  THEN k
  ELSE PickedMap(locale, srx, k + 1)

\* pickRuleSetForLocale from map entry k on: the rule set of the first map
\* whose pattern matches the locale
RuleSetOfMap(srx, m) ==
  IF m = 0 THEN [kind |-> "null"] ELSE PropertyOf(srx.rules, srx.map[m].languagerulename)
pickRuleSetForLocale(locale, srx, k) == RuleSetOfMap(srx, PickedMap(locale, srx, k))

\* getLocaleForUnit: sheetCfg?.sourceLocale || config.global?.srcLang || 'en'
getLocaleForUnit(config) ==
  IF config.sourceLocale.some /\ config.sourceLocale.v # "" THEN config.sourceLocale.v
  ELSE IF config.srcLang.some /\ config.srcLang.v # "" THEN config.srcLang.v
  ELSE "en"

\* srxRules of segmentUnits: the file at srxPath loaded, null without a path
\* or when loading throws
SrxRulesOf(config) == IF config.srx.some THEN loadSrxFromFile(config.srx.v) ELSE Nothing

\* if (set && set.length) bundle = { rules: set }
Truthy(set) ==
  \/ set.kind = "array" /\ set.rules # <<>>
  \/ set.kind = "function" /\ set.length > 0

\* bundle.rules for a unit of the locale: the picked rule set when there is
\* one with a length, else the built-in rules
BundleRules(locale, srxRules) ==
  IF srxRules.some /\ Truthy(pickRuleSetForLocale(locale, srxRules.v, 1))
  THEN pickRuleSetForLocale(locale, srxRules.v, 1)
  ELSE [kind |-> "array", rules |-> builtinRulesFor(locale)]

\* for (const rule of bundle.rules) throws a TypeError when bundle.rules is
\* not iterable; the loop is reached at the first boundary of a text of two
\* characters or more
NotIterable(text, set) == set.kind = "function" /\ Len(text) >= 2

\* segmentUnits for one unit with the rules of its locale
SegmentWithRules(u, set) ==
  WithSegments(u, segmentTextByRules(u.source,
                                     IF set.kind = "array" THEN set.rules ELSE <<>>))

\* srx.rules with the array of the property `name` holding the rules given:
\* the bundle shares the array and its expressions with the loaded file
WithProperty(rules, name, ruleSet) ==
  [k \in DOMAIN rules |->
     IF rules[k].name = name /\ \A j \in DOMAIN rules : rules[j].name = name => j <= k
     THEN [rules[k] EXCEPT !.rules = ruleSet]
     ELSE rules[k]]

\* srxRules after the unit of the locale and the text was segmented with the
\* rule set: a picked rule set holds its expressions as the tests of the unit
\* left them; the built-in rules are made anew for every unit and nothing of
\* them is kept
SrxRulesLeft(srxRules, locale, text, set) ==
  IF srxRules.some /\ set.kind = "array"
     /\ Truthy(pickRuleSetForLocale(locale, srxRules.v, 1))
  THEN Some([srxRules.v EXCEPT !.rules =
               WithProperty(srxRules.v.rules,
                            srxRules.v.map[PickedMap(locale, srxRules.v, 1)].languagerulename,
                            RulesAfter(text, set.rules))])
  ELSE srxRules

\* the callback of units.map in segmentUnits for the unit u, srxRules being
\* the rules loaded at the start of the call as the units before u left them:
\* [failed, units, srxRules]; failed when segmenting the unit throws
SegmentedWith(u, set, locale, srxRules) ==
  IF NotIterable(u.source, set)
  THEN [failed |-> TRUE, units |-> <<>>, srxRules |-> srxRules]
  ELSE [failed |-> FALSE, units |-> << SegmentWithRules(u, set) >>,
        srxRules |-> SrxRulesLeft(srxRules, locale, u.source, set)]
SegmentOne(u, config, srxRules) ==
  IF ~config.segmentation
  THEN [failed |-> FALSE, units |-> << segmentUnit(u, FALSE) >>, srxRules |-> srxRules]
  ELSE SegmentedWith(u, BundleRules(getLocaleForUnit(config), srxRules),
                     getLocaleForUnit(config), srxRules)

\* segmentUnits on an array of no unit or one: [failed, units]
OutcomeOf(o) == [failed |-> o.failed, units |-> o.units]
segmentUnits(u, config) ==
  IF ~u.some THEN [failed |-> FALSE, units |-> <<>>]
  ELSE OutcomeOf(SegmentOne(u.v, config, SrxRulesOf(config)))

(***************************************************************************)
(* HTML cells.  node-html-parser gives a tree: a text node is              *)
(* [nodeType 3, rawText], an element [nodeType 1, rawTagName, rawAttrs,    *)
(* childNodes]; the root wrapper is an element without a tag name.         *)
(***************************************************************************)

TextNode(raw) == [nodeType |-> 3, rawText |-> raw]
Element(name, attrs, children) ==
  [nodeType |-> 1, rawTagName |-> name, rawAttrs |-> attrs, childNodes |-> children]
RootNode(children) == Element("", "", children)

\* the fragment a tree was parsed from, for a well-formed fragment
RECURSIVE HtmlOf(_), HtmlOfAll(_)
HtmlOf(node) ==
  IF node.nodeType = 3 THEN node.rawText
  ELSE IF node.rawTagName = "" THEN HtmlOfAll(node.childNodes)
  ELSE "<" \o node.rawTagName
       \o (IF node.rawAttrs # "" THEN " " \o node.rawAttrs ELSE "") \o ">"
       \o HtmlOfAll(node.childNodes) \o "</" \o node.rawTagName \o ">"
HtmlOfAll(nodes) ==
  IF nodes = <<>> THEN "" ELSE HtmlOf(Head(nodes)) \o HtmlOfAll(Tail(nodes))

\* looksHtml: /<\/?[a-z][\s\S]*?>/i
looksHtml(s) ==
  \E p \in 0..Len(s) :
    /\ CharAt(s, p) = "<"
    /\ \E q \in {IF CharAt(s, p + 1) = "/" THEN p + 2 ELSE p + 1} :
         /\ CharAt(s, q) \in Lower \cup Upper
         /\ IndexOf(s, ">", q + 1) # -1

defaultInline == {"b", "strong", "i", "em", "u", "span", "small", "sub", "sup",
                  "mark", "a", "code"}

\* ctypeMap[tag] || `x-${tag}`
ctypeOf(tag) ==
  CASE tag \in {"b", "strong"} -> "bold"
    [] tag \in {"i", "em"}     -> "italic"
    [] tag = "u"               -> "underline"
    [] tag = "a"               -> "link"
    [] tag = "code"            -> "code"
    [] OTHER                   -> "x-" \o tag

\* node.rawAttrs ? ` ${node.rawAttrs}` : ''
RawAttrsOf(node) == IF node.rawAttrs # "" THEN " " \o node.rawAttrs ELSE ""

\* equivStart of htmlToXliffWithSkeleton: only the double quotes of the raw
\* attributes are escaped
equivStartOf(tag, rawAttrs) == "&lt;" \o tag \o rAll(rawAttrs, "\"", "&quot;") \o "&gt;"

\* What processNode and its loops carry: the skeleton and the XLIFF text so far,
\* inlineIdCounter, and the entries of inlineMap (id -> [open, close]).
Produced(skeleton, xliff, counter, inlineMap) ==
  [skeleton |-> skeleton, xliff |-> xliff, counter |-> counter, inlineMap |-> inlineMap]

\* skeletonOut += result.skeleton; xliffOut += result.xliff
AddResult(acc, result) ==
  Produced(acc.skeleton \o result.skeleton, acc.xliff \o result.xliff, result.counter,
           acc.inlineMap @@ result.inlineMap)

\* the result of an inline element with number id, inner being what the loop
\* over its children produced
InlineResult(tag, rawAttrs, version, id, inner) ==
  IF version = "2.1"
  THEN Produced("",
                "<pc id=\"" \o Digits(id) \o "\" dataRef=\"html_" \o tag
                  \o "\" equivStart=\"" \o equivStartOf(tag, rawAttrs)
                  \o "\" equivEnd=\"&lt;/" \o tag \o "&gt;\">" \o inner.xliff \o "</pc>",
                inner.counter, inner.inlineMap)
  ELSE Produced("",
                "<g id=\"" \o Digits(id) \o "\" ctype=\"" \o ctypeOf(tag) \o "\">"
                  \o inner.xliff \o "</g>",
                inner.counter,
                (id :> [open |-> "<" \o tag \o rawAttrs \o ">", close |-> "</" \o tag \o ">"])
                  @@ inner.inlineMap)

\* the result of a block element, or of the root wrapper (no tag)
BlockResult(tag, rawAttrs, inner) ==
  IF tag # ""
  THEN Produced("<" \o tag \o rawAttrs \o ">"
                  \o (IF inner.skeleton # "" THEN inner.skeleton ELSE "[[CONTENT]]")
                  \o "</" \o tag \o ">",
                inner.xliff, inner.counter, inner.inlineMap)
  ELSE inner

\* processNode of htmlToXliffWithSkeleton, counter being inlineIdCounter before
\* the node; processChildren is its loop over node.childNodes, acc being what
\* the children before nodes produced.
RECURSIVE processNode(_, _, _), processChildren(_, _, _)
processNode(node, version, counter) ==
  IF node.nodeType = 3 THEN Produced("", node.rawText, counter, <<>>)
  ELSE IF ToLower(node.rawTagName) \in defaultInline
  THEN InlineResult(ToLower(node.rawTagName), RawAttrsOf(node), version, counter,
                    processChildren(node.childNodes, version,
                                    Produced("", "", counter + 1, <<>>)))
  ELSE BlockResult(ToLower(node.rawTagName), RawAttrsOf(node),
                   processChildren(node.childNodes, version, Produced("", "", counter, <<>>)))
processChildren(nodes, version, acc) ==
  IF nodes = <<>> THEN acc
  ELSE processChildren(Tail(nodes), version,
                       AddResult(acc, processNode(Head(nodes), version, acc.counter)))

\* what htmlToXliffWithSkeleton returns for the result of the root: the inline
\* map is returned for version 1.2 only, and only when it has an entry
Returned(result, version) ==
  [skeleton    |-> result.skeleton,
   xliffSource |-> result.xliff,
   inlineMap   |-> IF version = "1.2" /\ DOMAIN result.inlineMap # {}
                   THEN Some(result.inlineMap) ELSE Nothing]
htmlToXliffWithSkeleton(dom, version) == Returned(processNode(dom, version, 1), version)

\* what extractTextNodes carries: the nodes as rewritten, the texts pushed
\* and textIdx
Extracted(nodes, texts, textIdx) == [nodes |-> nodes, texts |-> texts, textIdx |-> textIdx]
AddExtracted(acc, ex) == Extracted(acc.nodes \o ex.nodes, acc.texts \o ex.texts, ex.textIdx)
WithChildren(node, ex) ==
  Extracted(<< [node EXCEPT !.childNodes = ex.nodes] >>, ex.texts, ex.textIdx)

\* extractTextNodes of htmlToSkeleton: the first pass, which replaces every
\* text node that is not white space by its [[htmltxt:N]] token.
\* ExtractChildren is its loop over node.childNodes from the k-th on.
RECURSIVE extractTextNodes(_, _), ExtractChildren(_, _, _)
extractTextNodes(node, textIdx) ==
  IF node.nodeType = 3
  THEN (IF Trim(node.rawText) # ""
        THEN Extracted(<< TextNode("[[htmltxt:" \o Digits(textIdx) \o "]]") >>,
                       << node.rawText >>, textIdx + 1)
        ELSE Extracted(<< node >>, <<>>, textIdx))
  ELSE WithChildren(node, ExtractChildren(node.childNodes, 1, Extracted(<<>>, <<>>, textIdx)))
ExtractChildren(children, k, acc) ==
  IF k > Len(children) THEN acc
  ELSE ExtractChildren(children, k + 1,
                       AddExtracted(acc, extractTextNodes(children[k], acc.textIdx)))

\* what buildSkeleton carries: the skeleton text, inlineIdx and the entries
\* of inlineMap
Built(out, inlineIdx, inlineMap) == [out |-> out, inlineIdx |-> inlineIdx, inlineMap |-> inlineMap]
AddBuilt(acc, b) == Built(acc.out \o b.out, b.inlineIdx, acc.inlineMap @@ b.inlineMap)

\* an inline element numbered n, inner being what its children gave
InlineBuilt(tag, rawAttrs, n, inner) ==
  Built("[[io:" \o Digits(n) \o "]]" \o inner.out \o "[[ic:" \o Digits(n) \o "]]",
        inner.inlineIdx,
        (n :> [open |-> "<" \o tag \o rawAttrs \o ">", close |-> "</" \o tag \o ">"])
          @@ inner.inlineMap)

\* an element that is not inline keeps its tags; the root has none
BlockBuilt(tag, rawAttrs, inner) ==
  IF tag # ""
  THEN Built("<" \o tag \o rawAttrs \o ">" \o inner.out \o "</" \o tag \o ">",
             inner.inlineIdx, inner.inlineMap)
  ELSE inner

\* buildSkeleton of htmlToSkeleton, inlineIdx being the counter before the
\* node; BuildChildren is its loop over node.childNodes from the k-th on
RECURSIVE buildSkeleton(_, _), BuildChildren(_, _, _)
buildSkeleton(node, inlineIdx) ==
  IF node.nodeType = 3 THEN Built(node.rawText, inlineIdx, <<>>)
  ELSE IF ToLower(node.rawTagName) \in defaultInline
  THEN InlineBuilt(ToLower(node.rawTagName), RawAttrsOf(node), inlineIdx,
                   BuildChildren(node.childNodes, 1, Built("", inlineIdx + 1, <<>>)))
  ELSE BlockBuilt(ToLower(node.rawTagName), RawAttrsOf(node),
                  BuildChildren(node.childNodes, 1, Built("", inlineIdx, <<>>)))
BuildChildren(children, k, acc) ==
  IF k > Len(children) THEN acc
  ELSE BuildChildren(children, k + 1, AddBuilt(acc, buildSkeleton(children[k], acc.inlineIdx)))

\* what htmlToSkeleton returns, ex being what the first pass gave for the
\* root and b what the second gave for the rewritten root
SkeletonResult(ex, b) == [skeleton |-> b.out, texts |-> ex.texts, inlineMap |-> b.inlineMap]
SkeletonOf(ex) == SkeletonResult(ex, buildSkeleton(ex.nodes[1], 1))
htmlToSkeleton(dom) == SkeletonOf(extractTextNodes(dom, 1))

\* one character, upper-cased
UpperCh(c) == IF c \in Lower THEN CharAt(UpperSeq, IndexOf(LowerSeq, c, 0)) ELSE c

\* s.toUpperCase()
RECURSIVE toUpperCase(_)
toUpperCase(s) == IF s = "" THEN "" ELSE UpperCh(CharAt(s, 0)) \o toUpperCase(SliceFrom(s, 1))

\* the loop of colLetterToIndex over the upper-cased letters, n being the
\* number so far; it ends at the first character that is not a letter
RECURSIVE LetterLoop(_, _)
LetterLoop(s, n) ==
  IF s = "" \/ CharAt(s, 0) \notin Upper THEN n
  ELSE LetterLoop(SliceFrom(s, 1), n * 26 + IndexOf(UpperSeq, CharAt(s, 0), 0) + 1)
colLetterToIndex(s) == LetterLoop(toUpperCase(s), 0)

\* the loop of colIndexToLetter, s being the letters so far
RECURSIVE IndexLoop(_, _)
IndexLoop(n, s) ==
  IF n <= 0 THEN s
  ELSE IndexLoop((n - 1) \div 26, CharAt(UpperSeq, (n - 1) % 26) \o s)
colIndexToLetter(n) == IndexLoop(n, "")

\* encodeURIComponent, on the characters sheet names of the model use
EncodeURIChar(c) ==
  CASE c = " " -> "%20" [] c = "/" -> "%2F" [] c = ":" -> "%3A" [] c = "%" -> "%25"
    [] OTHER -> c
RECURSIVE encodeURIComponent(_)
encodeURIComponent(s) ==
  IF s = "" THEN "" ELSE EncodeURIChar(CharAt(s, 0)) \o encodeURIComponent(SliceFrom(s, 1))

makeTuId(sheetName, row, colLetter) ==
  encodeURIComponent(sheetName) \o "::R" \o Digits(row) \o "C" \o toUpperCase(colLetter)

\* the unit of an HTML cell, h being what htmlToXliffWithSkeleton returned for it,
\* and of a plain cell; the one segment is the whole text
UnitOf(id, sheetName, r, col, text, htmlSkeleton, htmlInlineMap) ==
  [id |-> id, sheetName |-> sheetName, row |-> r, col |-> col, source |-> text,
   meta |-> [htmlSkeleton |-> htmlSkeleton, htmlInlineMap |-> htmlInlineMap,
             placeholders |-> Nothing, targetLocale |-> Nothing],
   segments |-> << [id |-> id \o "_s0", source |-> text, target |-> Some(""),
                    start |-> Nothing, end |-> Nothing] >>]
HtmlUnit(id, sheetName, r, col, h) ==
  UnitOf(id, sheetName, r, col, h.xliffSource, Some(h.skeleton), h.inlineMap)

\* The unit extractUnits makes of one cell ([value, dom]: the cell's string and the
\* tree node-html-parser gives for it) at row r, column col of sheet sheetName.
\* The result is Nothing for an empty cell that is not HTML.
extractUnit(cell, sheetName, r, col, htmlEnabled, xliffVersion) ==
  IF htmlEnabled /\ looksHtml(cell.value)
  THEN Some(HtmlUnit(makeTuId(sheetName, r, col), sheetName, r, col,
                     htmlToXliffWithSkeleton(cell.dom, xliffVersion)))
  ELSE IF cell.value = "" THEN Nothing
  ELSE Some(UnitOf(makeTuId(sheetName, r, col), sheetName, r, col, cell.value,
                   Nothing, Nothing))

(***************************************************************************)
(* XLIFF writer.  The document xmlbuilder2 builds is a tree: a text node   *)
(* is [kind "text", text], an element [kind "ele", name, attrs, children], *)
(* attrs being the sequence of [name, value] in the order they were set.   *)
(***************************************************************************)

XText(t) == [kind |-> "text", text |-> t]
XEle(name, attrs, children) ==
  [kind |-> "ele", name |-> name, attrs |-> attrs, children |-> children]
XAttr(name, value) == [name |-> name, value |-> value]

\* parent.txt(t); an empty string adds no character to the document
Txt(t) == IF t = "" THEN <<>> ELSE << XText(t) >>

\* attrs[name], undefined when the attribute is absent
AttrOf(attrs, name) ==
  IF \E k \in DOMAIN attrs : attrs[k].name = name
  THEN Some(attrs[CHOOSE k \in DOMAIN attrs : attrs[k].name = name].value)
  ELSE Nothing

\* attrs[name] = value on an object: a known key keeps its place
SetAttr(attrs, name, value) ==
  IF \E k \in DOMAIN attrs : attrs[k].name = name
  THEN [k \in DOMAIN attrs |-> IF attrs[k].name = name THEN XAttr(name, value) ELSE attrs[k]]
  ELSE Append(attrs, XAttr(name, value))

\* regexesForUnit: the inlineCodeRegexes of the unit's sheet, compiled with the g
\* flag; a source that does not compile is dropped
ValidPatterns == {"\\{\\d+\\}", "%s", "\\d+"}
RECURSIVE regexesForUnit(_)
regexesForUnit(inlineCodeRegexes) ==
  IF inlineCodeRegexes = <<>> THEN <<>>
  ELSE (IF Head(inlineCodeRegexes) \in ValidPatterns
        THEN << NewRegExp(Head(inlineCodeRegexes), TRUE) >> ELSE <<>>)
       \o regexesForUnit(Tail(inlineCodeRegexes))

\* /\{[^{}]*,\s*(plural|select)\s*,[\s\S]*?\}/ matched at p: the end, or -1.
\* The keyword and both commas lie in the brace-free run after the "{"; the
\* lazy tail stops at the first "}" after them.
KeywordEnd(s, k) ==
  IF StartsWithAt(s, "plural", k) \/ StartsWithAt(s, "select", k) THEN k + 6 ELSE -1
CommaAfter(s, w) == w # -1 /\ CharAt(s, w + RunLen(s, w, Whitespace)) = ","
\* c is the position of a comma: the keyword and the second comma follow it
IcuKeywordAt(s, c) == CommaAfter(s, KeywordEnd(s, c + 1 + RunLen(s, c + 1, Whitespace)))
NotBrace(s, i) == i < Len(s) /\ CharAt(s, i) \notin {"{", "}"}
RECURSIVE BraceFreeRun(_, _)
BraceFreeRun(s, i) == IF NotBrace(s, i) THEN 1 + BraceFreeRun(s, i + 1) ELSE 0
\* e is the end of the brace-free run after the "{" at p
IcuBlockIn(s, p, e) ==
  IF /\ CharAt(s, p) = "{"
     /\ \E c \in (p + 1)..(e - 1) : CharAt(s, c) = "," /\ IcuKeywordAt(s, c)
     /\ IndexOf(s, "}", e) # -1
  THEN IndexOf(s, "}", e) + 1 ELSE -1
IcuBlockAt(s, p) == IcuBlockIn(s, p, p + 1 + BraceFreeRun(s, p + 1))

\* /\{([^{}]*)\}/ matched at p: the end, or -1
LeafAt(s, p) ==
  IF CharAt(s, p) = "{" /\ CharAt(s, p + 1 + BraceFreeRun(s, p + 1)) = "}"
  THEN p + 1 + BraceFreeRun(s, p + 1) + 1 ELSE -1

\* the leftmost position >= p where At (an operator giving the end of its match
\* at a position, or -1) matches, or -1
FirstFrom(At(_, _), s, p) == MinOrNone({ q \in p..(Len(s) - 1) : At(s, q) # -1 })

\* r with t put before its text
PrependText(t, r) == [r EXCEPT !.text = t \o r.text]

\* m.replace(/\{([^{}]*)\}/g, ...) inside one ICU block: each leaf becomes
\* [[pc:icuN:text]], text being the leaf without its braces and without "]".
\* EncodeLeafAt is the step for the leaf at p, -1 when no leaf is left.
RECURSIVE EncodeLeaves(_, _), EncodeLeafAt(_, _, _)
EncodeLeaves(m, icuIdx) == EncodeLeafAt(m, icuIdx, FirstFrom(LeafAt, m, 0))
EncodeLeafAt(m, icuIdx, p) ==
  IF p = -1 THEN [text |-> m, icuIdx |-> icuIdx]
  ELSE PrependText(Slice(m, 0, p) \o "[[pc:icu" \o Digits(icuIdx) \o ":"
                     \o rAll(Slice(m, p + 1, LeafAt(m, p) - 1), "]", "") \o "]]",
                   EncodeLeaves(SliceFrom(m, LeafAt(m, p)), icuIdx + 1))

\* text.replace(ICU_BLOCK, ...): EncodeIcuAt is the step for the block at p
\* that ends at e, p being -1 when no block is left
RECURSIVE EncodeIcu(_, _), EncodeIcuAt(_, _, _), EncodeIcuAfter(_, _, _)
EncodeIcu(text, icuIdx) == EncodeIcuAt(text, icuIdx, FirstFrom(IcuBlockAt, text, 0))
EncodeIcuAt(text, icuIdx, p) ==
  IF p = -1 THEN text
  ELSE Slice(text, 0, p)
       \o EncodeIcuAfter(text, IcuBlockAt(text, p),
                         EncodeLeaves(Slice(text, p, IcuBlockAt(text, p)), icuIdx))
EncodeIcuAfter(text, e, m) == m.text \o EncodeIcu(SliceFrom(text, e), m.icuIdx)

\* r with t put before its encoded text
PrependEncoded(t, r) == [r EXCEPT !.encoded = t \o r.encoded]

\* encoded.replace(re, ...) for one expression: every match becomes [[ph:phN]]
\* and map gets phN -> the matched text.  EncodeMatch is the step for the
\* match m.
RECURSIVE EncodeOne(_, _, _, _), EncodeMatch(_, _, _, _, _)
EncodeOne(text, src, phIndex, map) == EncodeMatch(text, src, phIndex, map, Search(src, text, 0))
EncodeMatch(text, src, phIndex, map, m) ==
  IF m.index = -1 \/ text = "" THEN [encoded |-> text, phIndex |-> phIndex, map |-> map]
  ELSE PrependEncoded(Slice(text, 0, m.index) \o "[[ph:ph" \o Digits(phIndex) \o "]]",
                      EncodeOne(SliceFrom(text, m.end), src, phIndex + 1,
                                Append(map, [id       |-> "ph" \o Digits(phIndex),
                                             original |-> Slice(text, m.index, m.end)])))

\* for (const re of regs): done is [encoded, phIndex, map] after the
\* expressions before regs
RECURSIVE EncodeRegs(_, _)
EncodeRegs(done, regs) ==
  IF regs = <<>> THEN [encoded |-> done.encoded, map |-> done.map]
  ELSE EncodeRegs(EncodeOne(done.encoded, Head(regs).src, done.phIndex, done.map), Tail(regs))

\* encodePlaceholders: ICU leaves first, then each expression in turn
encodePlaceholders(text, regs) ==
  EncodeRegs([encoded |-> EncodeIcu(text, 1), phIndex |-> 1, map |-> <<>>], regs)

\* the element names writeWithPh recognises: (pc|g|sc|ec|bx|ex|bpt|ept)
InlineNames == {"pc", "g", "sc", "ec", "bx", "ex", "bpt", "ept"}

\* the one string of a set that holds at most one, or "" for the empty set
TheOneOf(S) == IF S = {} THEN "" ELSE CHOOSE n \in S : TRUE

\* the name of the inline element opened at p ("<name" followed by a character
\* of follow), or "" when there is none
InlineNameAt(s, p, follow) ==
  TheOneOf({ n \in InlineNames :
               StartsWithAt(s, "<" \o n, p) /\ CharAt(s, p + 1 + Len(n)) \in follow })

\* /<(pc|g|sc|ec|bx|ex|bpt|ept)\s/.test(parts)
HasInlineElement(parts) ==
  \E p \in 0..Len(parts) : InlineNameAt(parts, p, Whitespace) # ""

\* (\s[^>]*)?> from q, the end of the element name: the end, or -1
TagEnd(s, q) ==
  IF CharAt(s, q) = ">" THEN q + 1
  ELSE IF IndexOf(s, ">", q + 1) # -1 THEN IndexOf(s, ">", q + 1) + 1
  ELSE -1

\* /<(pc|g|sc|ec|bx|ex|bpt|ept)(\s[^>]*)?>/ matched at p: the end, or -1
TagAt(s, p) ==
  IF InlineNameAt(s, p, Whitespace \cup {">"}) = "" THEN -1
  ELSE TagEnd(s, p + 1 + Len(InlineNameAt(s, p, Whitespace \cup {">"})))

\* "([^"]*)" from v, the start of the value: the end, or -1
AttrValueEnd(s, v) == IF IndexOf(s, "\"", v) # -1 THEN IndexOf(s, "\"", v) + 1 ELSE -1

\* /(\w+)="([^"]*)"/ matched at p: the end, or -1
AttrAt(s, p) ==
  IF RunLen(s, p, WordChar) > 0 /\ StartsWithAt(s, "=\"", p + RunLen(s, p, WordChar))
  THEN AttrValueEnd(s, p + RunLen(s, p, WordChar) + 2) ELSE -1

\* parseAttributes: every name="value" of the string, in order.
\* ParseAttributeAt is the step for the match at p, -1 when there is none.
RECURSIVE ParseAttributesFrom(_, _), ParseAttributeAt(_, _, _)
ParseAttributesFrom(s, attrs) == ParseAttributeAt(s, attrs, FirstFrom(AttrAt, s, 0))
ParseAttributeAt(s, attrs, p) ==
  IF p = -1 THEN attrs
  ELSE ParseAttributesFrom(SliceFrom(s, AttrAt(s, p)),
                           SetAttr(attrs, Slice(s, p, p + RunLen(s, p, WordChar)),
                                   Slice(s, p + RunLen(s, p, WordChar) + 2, AttrAt(s, p) - 1)))
parseAttributes(attrString) == ParseAttributesFrom(attrString, <<>>)

\* The search for the close tag that ends an element whose own text starts at
\* j, in the way of a first matching close tag, whatever the depth
FindCloseFirst(parts, tagName, j, depth) ==
  IF j < Len(parts) THEN IndexOf(parts, "</" \o tagName \o ">", j) ELSE -1

\* The depth loop of writeWithPh: from j, an open tag before the next close tag
\* raises the depth, a close tag lowers it; the close tag that brings it to zero
\* is the element's own.  The result is its position, or -1 when the element
\* is not closed.
RECURSIVE FindClose(_, _, _, _)
FindClose(parts, tagName, j, depth) ==
  IF ~(j < Len(parts) /\ depth > 0) THEN -1
  ELSE LET closeTag  == "</" \o tagName \o ">"
           nextOpen  == IndexOf(parts, "<" \o tagName, j)
           nextClose == IndexOf(parts, closeTag, j)
       IN IF nextClose = -1 THEN -1
          ELSE IF nextOpen # -1 /\ nextOpen < nextClose
          THEN FindClose(parts, tagName, nextOpen + Len(tagName) + 1, depth + 1)
          ELSE IF depth - 1 = 0 THEN nextClose
          ELSE FindClose(parts, tagName, nextClose + Len(closeTag), depth - 1)

\* /(\[\[(ph|pc):[^\]]+\]\])/ matched at p: the end, or -1
MarkAt(s, p) ==
  IF StartsWithAt(s, "[[ph:", p) \/ StartsWithAt(s, "[[pc:", p)
  THEN MarkEnd(s, p + 5, RunLen(s, p + 5, NotBracket(s))) ELSE -1

\* parts.split(MARK): the text between the markers, and after each marker the
\* marker itself and the kind its second group captured.  SplitMarkAt is the
\* step for the marker at p, -1 when there is none.
RECURSIVE SplitMark(_), SplitMarkAt(_, _)
SplitMark(s) == SplitMarkAt(s, FirstFrom(MarkAt, s, 0))
SplitMarkAt(s, p) ==
  IF p = -1 THEN << s >>
  ELSE << Slice(s, 0, p), Slice(s, p, MarkAt(s, p)), Slice(s, p + 2, p + 4) >>
       \o SplitMark(SliceFrom(s, MarkAt(s, p)))

\* what a part that is a whole marker adds, body being the text between
\* "[[ph:" or "[[pc:" and "]]"
MarkElement(part, body) ==
  \* /^\[\[ph:([^\]]+)\]\]$/
  IF StartsWithAt(part, "[[ph:", 0)
  THEN << XEle("ph", << XAttr("id", body) >>, <<>>) >>
  \* /^\[\[pc:([^:]+?):([^\]]*)\]\]$/
  ELSE IF IndexOf(body, ":", 0) > 0
  THEN << XEle("pc", << XAttr("id", Slice(body, 0, IndexOf(body, ":", 0))) >>,
               Txt(SliceFrom(body, IndexOf(body, ":", 0) + 1))) >>
  ELSE Txt(part)

\* what one part of the split adds to the parent
MarkNode(part) ==
  IF part = "" THEN <<>>
  ELSE IF MarkAt(part, 0) = Len(part) THEN MarkElement(part, Slice(part, 5, Len(part) - 2))
  ELSE Txt(part)

RECURSIVE MarkNodes(_)
MarkNodes(parts) ==
  IF parts = <<>> THEN <<>> ELSE MarkNode(Head(parts)) \o MarkNodes(Tail(parts))

\* tagSearch[2] || '' for the open tag at matchStart that ends at afterTag
AttrsStr(parts, matchStart, tagName, afterTag) ==
  Slice(parts, matchStart + 1 + Len(tagName), afterTag - 1)

\* s.endsWith('/')
EndsWithSlash(s) == CharAt(s, Len(s) - 1) = "/"

\* writeWithPh(parent, encoded): the children it adds to parent.  Text that
\* holds an inline element is cut at the elements, each element's own text
\* written by the same function; other text is cut at the [[ph:..]] and
\* [[pc:..]] markers.  WriteInline is the while loop from position i;
\* WriteTag its body for the open tag found at matchStart (-1: none);
\* WriteElement the element of that tag, afterTag being the end of the open
\* tag; WriteClosed what follows the depth loop, nextClose being the position
\* of the element's close tag (-1: the element is not closed).
RECURSIVE writeWithPh(_), WriteInline(_, _), WriteTag(_, _, _),
          WriteElement(_, _, _, _), WriteClosed(_, _, _, _, _)
writeWithPh(encoded) ==
  IF HasInlineElement(encoded) THEN WriteInline(encoded, 0)
  ELSE MarkNodes(SplitMark(encoded))
WriteInline(parts, i) ==
  IF ~(i < Len(parts)) THEN <<>> ELSE WriteTag(parts, i, FirstFrom(TagAt, parts, i))
WriteTag(parts, i, matchStart) ==
  IF matchStart = -1 THEN Txt(SliceFrom(parts, i))
  ELSE Txt(Slice(parts, i, matchStart))
       \o WriteElement(parts, matchStart,
                       InlineNameAt(parts, matchStart, Whitespace \cup {">"}),
                       TagAt(parts, matchStart))
WriteElement(parts, matchStart, tagName, afterTag) ==
  IF EndsWithSlash(Trim(AttrsStr(parts, matchStart, tagName, afterTag)))
  THEN << XEle(tagName, parseAttributes(AttrsStr(parts, matchStart, tagName, afterTag)),
               <<>>) >>
       \o WriteInline(parts, afterTag)
  ELSE WriteClosed(parts, matchStart, tagName, afterTag,
                   FindClose(parts, tagName, afterTag, 1))
\* an element that is not closed written as an empty element, the text
\* after its open tag following it
WriteUnclosedAsElement(parts, matchStart, tagName, afterTag, nextClose) ==
  IF nextClose = -1
  THEN << XEle(tagName, parseAttributes(AttrsStr(parts, matchStart, tagName, afterTag)),
               <<>>) >>
       \o WriteInline(parts, afterTag)
  ELSE << XEle(tagName, parseAttributes(AttrsStr(parts, matchStart, tagName, afterTag)),
               writeWithPh(Slice(parts, afterTag, nextClose))) >>
       \o WriteInline(parts, nextClose + Len(tagName) + 3)
WriteClosed(parts, matchStart, tagName, afterTag, nextClose) ==
  IF nextClose = -1 THEN Txt(SliceFrom(parts, matchStart))
  ELSE << XEle(tagName, parseAttributes(AttrsStr(parts, matchStart, tagName, afterTag)),
               writeWithPh(Slice(parts, afterTag, nextClose))) >>
       \o WriteInline(parts, nextClose + Len(tagName) + 3)

\* A text node whose characters are JSON.stringify(value).  JSON.parse gives
\* back an equal value for the maps of strings the notes carry, so the node
\* keeps the value its characters encode.
JsonText(value) == [kind |-> "json", json |-> value]

\* the children one unit adds under <file>: <unit id> holding <notes> and one
\* <segment> per segment, each with <source> and, when the segment has a
\* target, <target>
SegmentElement(seg, regs) ==
  XEle("segment", << XAttr("id", seg.id) >>,
       << XEle("source", << XAttr("xml:space", "preserve") >>,
               writeWithPh(encodePlaceholders(seg.source, regs).encoded)) >>
       \o (IF seg.target.some
           THEN << XEle("target", << XAttr("xml:space", "preserve") >>,
                        writeWithPh(seg.target.v)) >>
           ELSE <<>>))

\* u.segments && u.segments.length ? u.segments : [{ id: `${u.id}_s0`, source: u.source }]
SegmentsToExport(u) ==
  IF u.segments # <<>> THEN u.segments
  ELSE << [id |-> u.id \o "_s0", source |-> u.source, target |-> Nothing,
           start |-> Nothing, end |-> Nothing] >>

\* notes.ele('note', { category }).txt(...)
Note(category, textNode) == XEle("note", << XAttr("category", category) >>, << textNode >>)

\* phMap: for each segment, in order, the map encodePlaceholders gives for it
PhMap(segs, regs) ==
  [k \in DOMAIN segs |->
     [id |-> segs[k].id, map |-> encodePlaceholders(segs[k].source, regs).map]]

\* the children of <notes> for unit u with segments segs
UnitNotes(u, segs, regs) ==
  << XEle("note", <<>>,
          << XText("sheet=" \o u.sheetName \o ";row=" \o Digits(u.row) \o ";col=" \o u.col) >>) >>
  \o (IF u.meta.htmlSkeleton.some /\ u.meta.htmlSkeleton.v # ""
      THEN << Note("htmlSkeleton", XText(u.meta.htmlSkeleton.v)) >> ELSE <<>>)
  \o (IF u.meta.htmlInlineMap.some
      THEN << Note("htmlInlineMap", JsonText(u.meta.htmlInlineMap.v)) >> ELSE <<>>)
  \o (IF segs # <<>> THEN << Note("ph", JsonText(PhMap(segs, regs))) >> ELSE <<>>)

UnitOfSegments(u, segs, regs) ==
  XEle("unit", << XAttr("id", u.id) >>,
       << XEle("notes", <<>>, UnitNotes(u, segs, regs)) >>
       \o [k \in DOMAIN segs |-> SegmentElement(segs[k], regs)])

UnitElement(u, regs) == UnitOfSegments(u, SegmentsToExport(u), regs)

\* exportToXliff: the document for the units, regs being regexesForUnit of
\* their sheet and trgLang the optional target language
ExportOptions(srcLang, trgLang) == [srcLang |-> srcLang, trgLang |-> trgLang]

\* options?.srcLang ?? config.global?.srcLang ?? 'en'
SrcLangOf(config, options) ==
  IF options.srcLang.some THEN options.srcLang.v
  ELSE IF config.srcLang.some THEN config.srcLang.v
  ELSE "en"

XliffDocument(xliffVersion, srcLang, trgLang, unitElements) ==
  XEle("xliff",
       << XAttr("version", xliffVersion), XAttr("srcLang", srcLang) >>
       \o (IF trgLang.some /\ trgLang.v # "" THEN << XAttr("trgLang", trgLang.v) >> ELSE <<>>),
       << XEle("file",
               << XAttr("id", "workbook"), XAttr("original", "workbook.xlsx"),
                  XAttr("tool-id", "excel-l10n") >>,
               unitElements) >>)
exportToXliff(units, config, options) ==
  XliffDocument(config.xliffVersion, SrcLangOf(config, options), options.trgLang,
                [k \in DOMAIN units |->
                   UnitElement(units[k], regexesForUnit(config.inlineCodeRegexes))])

(***************************************************************************)
(* XLIFF reader.  root.end() writes the tree as text and XMLParser reads   *)
(* the text back with preserveOrder and without trimming: the elements,    *)
(* their attributes and their order are those written; text nodes written  *)
(* one after the other come back as one text node.                         *)
(***************************************************************************)

RECURSIVE ReadNodes(_)
ReadNodes(nodes) ==
  IF nodes = <<>> THEN <<>>
  ELSE LET h == Head(nodes)
           t == ReadNodes(Tail(nodes))
       IN IF h.kind = "ele"
          THEN << [h EXCEPT !.children = ReadNodes(h.children)] >> \o t
          ELSE IF h.kind = "json" THEN << h >> \o t
          ELSE IF t # <<>> /\ Head(t).kind = "text"
          THEN << XText(h.text \o Head(t).text) >> \o Tail(t)
          ELSE << h >> \o t

\* children of nodes that are elements called name
ChildrenNamed(nodes, name) ==
  SelectSeq(nodes, LAMBDA n : n.kind = "ele" /\ n.name = name)

\* attrs['@_name'] || attrs.name || ''
ValueOrEmpty(a) == IF a.some THEN a.v ELSE ""
AttrOr(node, name) == ValueOrEmpty(AttrOf(node.attrs, name))

\* the decode of equivStart and equivEnd in flatten
decodeEquiv(v) == rAll(rAll(rAll(rAll(v, "&lt;", "<"), "&gt;", ">"), "&quot;", "\""), "&amp;", "&")

\* the tag flatten gives a <g> element from its ctype
tagOfCtype(ctype) ==
  CASE ctype = "bold"      -> "b"
    [] ctype = "italic"    -> "i"
    [] ctype = "underline" -> "u"
    [] ctype = "link"      -> "a"
    [] ctype = "code"      -> "code"
    [] StartsWithAt(ctype, "x-", 0) -> SliceFrom(ctype, 2)
    [] OTHER               -> "span"

\* dataRef.replace(/^html_/, '') || 'span'
TagOfDataRef(dataRef) ==
  IF StartsWithAt(dataRef, "html_", 0)
  THEN (IF SliceFrom(dataRef, 5) # "" THEN SliceFrom(dataRef, 5) ELSE "span")
  ELSE IF dataRef # "" THEN dataRef ELSE "span"

\* the text of a <pc> whose own text is innerText
PcText(equivStart, equivEnd, tagName, innerText) ==
  IF equivStart # "" /\ equivEnd # ""
  THEN decodeEquiv(equivStart) \o innerText \o decodeEquiv(equivEnd)
  ELSE "<" \o tagName \o ">" \o innerText \o "</" \o tagName \o ">"

\* the text of a <g> whose own text is innerText
GText(tagName, innerText) == "<" \o tagName \o ">" \o innerText \o "</" \o tagName \o ">"

\* flatten of parseXliffToUnits: the text of a list of nodes, a <ph> as its
\* [[ph:id]] marker, a <pc> or <g> as an HTML element around its own text
RECURSIVE flatten(_), flattenNode(_)
flatten(nodeArray) ==
  IF nodeArray = <<>> THEN "" ELSE flattenNode(Head(nodeArray)) \o flatten(Tail(nodeArray))
flattenNode(node) ==
  IF node.kind = "text" THEN node.text
  ELSE IF node.name = "ph"
  THEN (IF AttrOr(node, "id") # "" THEN "[[ph:" \o AttrOr(node, "id") \o "]]" ELSE "")
  ELSE IF node.name = "pc"
  THEN PcText(AttrOr(node, "equivStart"), AttrOr(node, "equivEnd"),
              TagOfDataRef(AttrOr(node, "dataRef")), flatten(node.children))
  ELSE IF node.name = "g"
  THEN GText(tagOfCtype(AttrOr(node, "ctype")), flatten(node.children))
  ELSE IF node.name \in {"sc", "ec", "source", "target"} THEN flatten(node.children)
  ELSE IF node.name \in {"bpt", "ept"}
  THEN flatten(SelectSeq(node.children, LAMBDA n : n.kind = "text"))
  ELSE ""

\* parseInt(digits, 10)
RECURSIVE ParseInt(_)
ParseInt(digits) ==
  IF digits = "" THEN 0
  ELSE 10 * ParseInt(Slice(digits, 0, Len(digits) - 1))
       + IndexOf("0123456789", CharAt(digits, Len(digits) - 1), 0)

\* ;col=([A-Z]+) from c, u being the length of the run of [A-Z] after it
ColEnd(s, c, u) == IF StartsWithAt(s, ";col=", c) /\ u > 0 THEN c + 5 + u ELSE -1

\* /;row=(\d+);col=([A-Z]+)/ matched at q: the end, or -1
RowColAt(s, q) ==
  IF StartsWithAt(s, ";row=", q) /\ RunLen(s, q + 5, Digit) > 0
  THEN ColEnd(s, q + 5 + RunLen(s, q + 5, Digit),
              RunLen(s, q + 5 + RunLen(s, q + 5, Digit) + 5, Upper))
  ELSE -1

\* the groups of the match, p being the position of "sheet=", q that of ";row="
\* and d the number of digits of the row
LocationAt(text, p, q, d) ==
  IF q = -1 THEN Nothing
  ELSE Some([sheetName |-> Slice(text, p + 6, q),
             row       |-> ParseInt(Slice(text, q + 5, q + 5 + d)),
             col       |-> Slice(text, q + 5 + d + 5, RowColAt(text, q))])
LocationFrom(text, p, q) == LocationAt(text, p, q, RunLen(text, q + 5, Digit))

\* /sheet=(.*?);row=(\d+);col=([A-Z]+)/.exec(text): the three groups, or Nothing
LocationOf(text) ==
  IF IndexOf(text, "sheet=", 0) = -1 THEN Nothing
  ELSE LocationFrom(text, IndexOf(text, "sheet=", 0),
                    FirstFrom(RowColAt, text, IndexOf(text, "sheet=", 0) + 6))

\* the first of a sequence, when it has one
FirstOf(seq) == IF seq = <<>> THEN Nothing ELSE Some(Head(seq))

\* the text extractNotes reads from a <note>: its first text node
NoteText(note) == FirstOf(SelectSeq(note.children, LAMBDA n : n.kind \in {"text", "json"}))

\* sheetName, row and col set from the location loc, when the text gave one
WithLocation(acc, loc) ==
  IF loc.some
  THEN [acc EXCEPT !.sheetName = loc.v.sheetName, !.row = loc.v.row, !.col = loc.v.col]
  ELSE acc

\* what one <note> of category with the text node text does to acc.  JSON.parse
\* of the text succeeds on the text JSON.stringify wrote.
NoteInto(acc, category, text) ==
  IF ~text.some THEN acc
  ELSE IF category = ""
  THEN (IF text.v.kind = "text" THEN WithLocation(acc, LocationOf(text.v.text)) ELSE acc)
  ELSE IF category = "ph" /\ text.v.kind = "json" THEN [acc EXCEPT !.ph = Some(text.v.json)]
  ELSE IF category = "htmlSkeleton" /\ text.v.kind = "text"
  THEN [acc EXCEPT !.htmlSkeleton = Some(text.v.text)]
  ELSE IF category = "htmlInlineMap" /\ text.v.kind = "json"
  THEN [acc EXCEPT !.htmlInlineMap = Some(text.v.json)]
  ELSE acc

\* extractNotes: what the notes of a unit give; a later note of a category
\* replaces an earlier one
RECURSIVE ExtractNotesFrom(_, _)
ExtractNotesFrom(notes, acc) ==
  IF notes = <<>> THEN acc
  ELSE ExtractNotesFrom(Tail(notes),
                        NoteInto(acc, AttrOr(Head(notes), "category"), NoteText(Head(notes))))
extractNotes(notesArray) ==
  ExtractNotesFrom(ChildrenNamed(notesArray, "note"),
                   [sheetName |-> "", row |-> 0, col |-> "", ph |-> Nothing,
                    htmlSkeleton |-> Nothing, htmlInlineMap |-> Nothing])

\* the last of a sequence of elements, as an element without children when
\* the sequence is empty
LastOr(elements, name) ==
  IF elements = <<>> THEN XEle(name, <<>>, <<>>) ELSE elements[Len(elements)]

\* one <segment> read back: the id is the default `${id}_s${idx}` (the id
\* attribute of <segment> itself is not among the attributes the loop reads:
\* those are its children's), the source and target are flattened
SegmentRead(withId, sources, targets, unitId, idx) ==
  [id     |-> IF withId # <<>> THEN AttrOr(withId[Len(withId)], "id")
              ELSE unitId \o "_s" \o Digits(idx),
   source |-> flatten(LastOr(sources, "source").children),
   target |-> IF targets = <<>> THEN Nothing
              ELSE Some(flatten(LastOr(targets, "target").children)),
   start  |-> Nothing,
   end    |-> Nothing]
ParsedSegment(segArray, unitId, idx) ==
  SegmentRead(SelectSeq(segArray, LAMBDA c : c.kind = "ele" /\ AttrOr(c, "id") # ""),
              ChildrenNamed(segArray, "source"), ChildrenNamed(segArray, "target"),
              unitId, idx)

\* the unit with the given id, notes n and segments
UnitRead(id, n, segments, fileTrg) ==
  [id |-> id, sheetName |-> n.sheetName, row |-> n.row, col |-> n.col,
   \* segments.map(s => s.source).join('')
   source |-> Join([k \in DOMAIN segments |-> segments[k].source]),
   segments |-> segments,
   meta |-> [targetLocale  |-> IF fileTrg # "" THEN Some(fileTrg) ELSE Nothing,
             placeholders  |-> n.ph,
             htmlSkeleton  |-> IF n.htmlSkeleton.some /\ n.htmlSkeleton.v # ""
                               THEN n.htmlSkeleton ELSE Nothing,
             htmlInlineMap |-> n.htmlInlineMap]]

\* the <segment> elements segEls of the unit, read back
SegmentsRead(segEls, id) ==
  [k \in DOMAIN segEls |-> ParsedSegment(segEls[k].children, id, k - 1)]

ParsedUnit(unitItem, fileTrg) ==
  UnitRead(AttrOr(unitItem, "id"),
           extractNotes(LastOr(ChildrenNamed(unitItem.children, "notes"), "notes").children),
           SegmentsRead(ChildrenNamed(unitItem.children, "segment"), AttrOr(unitItem, "id")),
           fileTrg)

\* the units of the first <file> of the <xliff> element
UnitsOfFile(files, fileTrg) ==
  IF files = <<>> THEN <<>>
  ELSE [k \in DOMAIN SelectSeq(ChildrenNamed(files[1].children, "unit"),
                               LAMBDA u : AttrOr(u, "id") # "") |->
          ParsedUnit(SelectSeq(ChildrenNamed(files[1].children, "unit"),
                               LAMBDA u : AttrOr(u, "id") # "")[k], fileTrg)]
UnitsOfXliff(xliff) ==
  UnitsOfFile(ChildrenNamed(xliff.children, "file"), AttrOr(xliff, "trgLang"))

\* parseXliffToUnits of the text root.end() wrote for the document
parseXliffToUnits(doc) == UnitsOfXliff(Head(ReadNodes(<< doc >>)))

(***************************************************************************)
(* Merger                                                                  *)
(***************************************************************************)

\* /\[\[(?:htmltxt|io|ic):\d+\]\]/ (kinds: the names allowed) matched at p: the
\* end, or -1
MarkerOfKind(k, s, p) ==
  IF StartsWithAt(s, "[[" \o k \o ":", p)
  THEN MarkEnd(s, p + Len(k) + 3, RunLen(s, p + Len(k) + 3, Digit)) ELSE -1
MarkerAt(kinds, s, p) == MinOrNone({ MarkerOfKind(k, s, p) : k \in kinds } \ {-1})

\* /(\[\[(?:htmltxt|io|ic):\d+\]\]|<[^>]+>)/ matched at p: the end, or -1
SkeletonTokenAt(s, p) ==
  IF MarkerAt({"htmltxt", "io", "ic"}, s, p) # -1 THEN MarkerAt({"htmltxt", "io", "ic"}, s, p)
  ELSE IF CharAt(s, p) = "<" /\ IndexOf(s, ">", p + 2) # -1 /\ CharAt(s, p + 1) # ">"
  THEN IndexOf(s, ">", p + 2) + 1
  ELSE -1

\* /(\[\[(?:io|ic):\d+\]\])/ matched at p: the end, or -1
TranslationTokenAt(s, p) == MarkerAt({"io", "ic"}, s, p)

\* the token for the matched text
KindOf(token) ==
  IF StartsWithAt(token, "[[htmltxt:", 0) THEN "htmltxt"
  ELSE IF StartsWithAt(token, "[[io:", 0) THEN "io"
  ELSE IF StartsWithAt(token, "[[ic:", 0) THEN "ic"
  ELSE "tag"
TokenOfKind(token, kind) ==
  [type  |-> kind, value |-> token,
   id    |-> IF kind = "tag" THEN "" ELSE Slice(token, Len(kind) + 3, Len(token) - 2)]
TokenOf(token) == TokenOfKind(token, KindOf(token))

\* a text token for a text that is not empty
TextToken(t) == IF t # "" THEN << [type |-> "text", value |-> t, id |-> ""] >> ELSE <<>>

\* tokenizeSkeleton: the text before each match as a text token, then the
\* match.  SkeletonTokenFrom is the step for the match at p, -1 when there is
\* none.
RECURSIVE tokenizeSkeleton(_), SkeletonTokenFrom(_, _)
tokenizeSkeleton(skeleton) ==
  SkeletonTokenFrom(skeleton, FirstFrom(SkeletonTokenAt, skeleton, 0))
SkeletonTokenFrom(s, p) ==
  IF p = -1 THEN TextToken(s)
  ELSE TextToken(Slice(s, 0, p))
       \o << TokenOf(Slice(s, p, SkeletonTokenAt(s, p))) >>
       \o tokenizeSkeleton(SliceFrom(s, SkeletonTokenAt(s, p)))

\* tokenizeTranslation: the same loop over the translation; an [[io:n]] or
\* [[ic:n]] is a placeholder of that kind
RECURSIVE tokenizeTranslation(_), TranslationTokenFrom(_, _)
tokenizeTranslation(text) ==
  TranslationTokenFrom(text, FirstFrom(TranslationTokenAt, text, 0))
TranslationTokenFrom(s, p) ==
  IF p = -1 THEN TextToken(s)
  ELSE TextToken(Slice(s, 0, p))
       \o << TokenOf(Slice(s, p, TranslationTokenAt(s, p))) >>
       \o tokenizeTranslation(SliceFrom(s, TranslationTokenAt(s, p)))

\* no literal for any marker
NoLiteral(inlineMap, id, side) == ""

\* inlineMap?.[id]?.open ?? '' and .close, inlineMap being Nothing or Some(id -> [open, close])
InlineEntry(inlineMap, id, side) ==
  IF inlineMap.some /\ id # "" /\ ParseInt(id) \in DOMAIN inlineMap.v /\ Digits(ParseInt(id)) = id
  THEN (IF side = "io" THEN inlineMap.v[ParseInt(id)].open ELSE inlineMap.v[ParseInt(id)].close)
  ELSE ""

\* the number of text tokens at the head of tokens
RECURSIVE TextRun(_)
TextRun(tokens) ==
  IF tokens # <<>> /\ Head(tokens).type = "text" THEN 1 + TextRun(Tail(tokens)) ELSE 0

\* the loop of composeHtmlFromSkeleton over the skeleton tokens, tx being the
\* translation tokens not yet consumed; then the residual text tokens
RECURSIVE ComposeLoop(_, _, _)
ComposeLoop(skeletonTokens, tx, inlineMap) ==
  IF skeletonTokens = <<>>
  THEN Join([k \in DOMAIN tx |-> IF tx[k].type = "text" THEN tx[k].value ELSE ""])
  ELSE LET token == Head(skeletonTokens)
           rest  == Tail(skeletonTokens)
       IN IF token.type \in {"tag", "text"}
          THEN token.value \o ComposeLoop(rest, tx, inlineMap)
          ELSE IF token.type \in {"io", "ic"}
          THEN InlineEntry(inlineMap, token.id, token.type)
               \o ComposeLoop(rest,
                              IF tx # <<>> /\ Head(tx).type = token.type /\ Head(tx).id = token.id
                              THEN Tail(tx) ELSE tx,
                              inlineMap)
          ELSE LET n == TextRun(tx)
               IN Join([k \in 1..n |-> tx[k].value])
                  \o ComposeLoop(rest, SubSeq(tx, n + 1, Len(tx)), inlineMap)

\* the skeleton composed without a translation
SkeletonAlone(translated, skeleton, inlineMap) ==
  ComposeLoop(tokenizeSkeleton(skeleton), <<>>, inlineMap)

composeHtmlFromSkeleton(translated, skeleton, inlineMap) ==
  ComposeLoop(tokenizeSkeleton(skeleton), tokenizeTranslation(translated), inlineMap)

\* a segment without a target merged as its source, whatever the fallback
TargetOrSource(seg, mergeFallback) ==
  IF seg.target.some /\ seg.target.v # "" THEN seg.target.v ELSE seg.source

\* config.global?.mergeFallback ?? 'source'
FallbackOf(mergeFallback) == IF mergeFallback.some THEN mergeFallback.v ELSE "source"

\* chosen: the target of the segment when it has one that is not empty, else
\* its source under the fallback 'source', else nothing
ChosenText(seg, mergeFallback) ==
  IF seg.target.some /\ seg.target.v # "" THEN seg.target.v
  ELSE IF FallbackOf(mergeFallback) = "source" THEN seg.source
  ELSE ""

\* placeholderMap[seg.id]: the id -> original entries exported for the segment
PlaceholdersOf(meta, segId) ==
  IF meta.placeholders.some
     /\ \E k \in DOMAIN meta.placeholders.v : meta.placeholders.v[k].id = segId
  THEN LET ks == { k \in DOMAIN meta.placeholders.v : meta.placeholders.v[k].id = segId }
       IN meta.placeholders.v[CHOOSE k \in ks : \A j \in ks : j <= k].map
  ELSE <<>>

\* the segment body as the translator left it, its tokens not replaced
KeepTokens(segBody, entries) == segBody

\* the rehydration loop: each entry of the map in turn replaces every
\* occurrence of its [[ph:id]] token
RECURSIVE Rehydrate(_, _)
Rehydrate(segBody, entries) ==
  IF entries = <<>> THEN segBody
  ELSE Rehydrate(rAll(segBody, "[[ph:" \o Head(entries).id \o "]]", Head(entries).original),
                 Tail(entries))

\* seg.source ? src.indexOf(seg.source, pos) : -1
LocateSegment(src, seg, pos) == IF seg.source # "" THEN IndexOf(src, seg.source, pos) ELSE -1

\* the gap that is the text of src from pos to idx, whatever its length
GapIsBetween(src, pos, idx) == IF idx >= 0 THEN Slice(src, pos, idx) ELSE ""

\* the gap of a segment found or not: the text up to it when there is some,
\* else a single space after a previous segment
GapFoundOrNot(src, pos, idx) ==
  IF idx >= 0 /\ Slice(src, pos, idx) # "" THEN Slice(src, pos, idx)
  ELSE IF pos > 0 THEN " " ELSE ""

\* gap: the text of src from pos to idx, where the segment was found; when
\* that text is empty, a single space after a previous segment
GapBefore(src, pos, idx) ==
  IF idx >= 0
  THEN (IF Slice(src, pos, idx) # "" THEN Slice(src, pos, idx)
        ELSE IF pos > 0 THEN " " ELSE "")
  ELSE ""

\* the segment loop of mergeWorkbook from segment i on, pos being the end of
\* the last segment located in src; the trailing text of src comes last.
\* RebuildAt is the body of the loop for segment i, found at idx.
RECURSIVE RebuildSegments(_, _, _, _), RebuildAt(_, _, _, _, _)
RebuildSegments(tu, i, pos, mergeFallback) ==
  IF i > Len(tu.segments) THEN SliceFrom(tu.source, pos)
  ELSE RebuildAt(tu, i, pos, mergeFallback, LocateSegment(tu.source, tu.segments[i], pos))
RebuildAt(tu, i, pos, mergeFallback, idx) ==
  GapBefore(tu.source, pos, idx)
  \o Rehydrate(ChosenText(tu.segments[i], mergeFallback),
               PlaceholdersOf(tu.meta, tu.segments[i].id))
  \o RebuildSegments(tu, i + 1,
                     IF idx >= 0 THEN idx + Len(tu.segments[i].source) ELSE pos,
                     mergeFallback)

\* the expansion of [[io:n]] and [[ic:n]] for a unit with an inline map and no
\* skeleton, entry by entry
RECURSIVE ExpandInline(_, _, _)
ExpandInline(text, inlineMap, n) ==
  IF n > Len(inlineMap) THEN text
  ELSE ExpandInline(rAll(rAll(text, "[[io:" \o Digits(n) \o "]]", inlineMap[n].open),
                         "[[ic:" \o Digits(n) \o "]]", inlineMap[n].close),
                    inlineMap, n + 1)

\* finalText of mergeWorkbook for one unit
\* finalText for the text rebuilt from the segments
FinalText(tu, rebuilt) ==
  IF tu.meta.htmlSkeleton.some /\ tu.meta.htmlSkeleton.v # ""
  THEN composeHtmlFromSkeleton(rebuilt, tu.meta.htmlSkeleton.v, tu.meta.htmlInlineMap)
  ELSE IF tu.meta.htmlInlineMap.some
  THEN ExpandInline(rebuilt, tu.meta.htmlInlineMap.v, 1)
  ELSE rebuilt
MergedText(tu, mergeFallback) ==
  FinalText(tu, IF tu.segments # <<>> THEN RebuildSegments(tu, 1, 0, mergeFallback)
                ELSE tu.source)

(***************************************************************************)
(* Pseudo-translation                                                      *)
(***************************************************************************)

\* defaultMap: the images of A..Z and of a..z, in the order of the letters.
\* A state keeps of a character outside ASCII only its low byte, so the 26 +
\* 26 images and the two wrap characters are written here as the 54
\* characters from U+FF80 on, which have distinct low bytes: the images of
\* the capitals first, then those of the small letters, then the left and
\* the right wrap.  The images stay distinct from one another, from every
\* ASCII character and from the wrap characters, as those of defaultMap are.
PseudoUpper == "ﾀﾁﾂﾃﾄﾅﾆﾇﾈﾉﾊﾋﾌﾍﾎﾏﾐﾑﾒﾓﾔﾕﾖﾗﾘﾙ"
PseudoLower == "ﾚﾛﾜﾝﾞﾟﾠﾡﾢﾣﾤﾥﾦﾧﾨﾩﾪﾫﾬﾭﾮﾯﾰﾱﾲﾳ"

\* the filler of the expansion, which defaultMap also gives for the letter o
Filler == "ﾨ"

\* wrap.left and wrap.right
WrapLeft == "ﾴ"
WrapRight == "ﾵ"

\* defaultMap[ch] ?? ch
MapChar(ch) ==
  IF ch \in Upper THEN CharAt(PseudoUpper, IndexOf(UpperSeq, ch, 0))
  ELSE IF ch \in Lower THEN CharAt(PseudoLower, IndexOf(LowerSeq, ch, 0))
  ELSE ch

\* the images of the characters of p from position lo up to position hi,
\* joined; the range is halved at each step
RECURSIVE MappedRange(_, _, _)
MappedRange(p, lo, hi) ==
  IF lo >= hi THEN ""
  ELSE IF lo + 1 = hi THEN MapChar(CharAt(p, lo))
  ELSE MappedRange(p, lo, (lo + hi) \div 2) \o MappedRange(p, (lo + hi) \div 2, hi)

\* p.split('').map(ch => defaultMap[ch] ?? ch).join('')
Mapped(p) == MappedRange(p, 0, Len(p))

\* c.repeat(n)
RECURSIVE Repeat(_, _)
Repeat(c, n) ==
  IF n <= 0 THEN ""
  ELSE IF n = 1 THEN c
  ELSE Repeat(c, n \div 2) \o Repeat(c, n - n \div 2)

\* Math.ceil(mapped.length * rate) for the default rate, 0.3
ExtraOf(n) == (3 * n + 9) \div 10

\* a part kept as it is
Untouched(p) == p

\* what a part that is not a placeholder adds to out: its characters mapped,
\* then the filler
Expanded(p) == Mapped(p) \o Repeat(Filler, ExtraOf(Len(p)))

\* String(text).split(PLACEHOLDER_RE): the texts between the placeholders, and
\* after each text the placeholder that follows it (the group of the pattern).
\* SplitPlaceholderAt is the step for the placeholder at p, -1 when none is left.
RECURSIVE SplitPlaceholders(_), SplitPlaceholderAt(_, _)
SplitPlaceholders(s) == SplitPlaceholderAt(s, FirstFrom(PseudoPlaceholderAt, s, 0))
SplitPlaceholderAt(s, p) ==
  IF p = -1 THEN << s >>
  ELSE << Slice(s, 0, p), Slice(s, p, PseudoPlaceholderAt(s, p)) >>
       \o SplitPlaceholders(SliceFrom(s, PseudoPlaceholderAt(s, p)))

\* the loop of pseudoTransform over the parts: [out, re], re being
\* PLACEHOLDER_RE, whose lastIndex every test moves.  PseudoPart is the step
\* for a part that is not empty, t being what PLACEHOLDER_RE.test gave for it.
RECURSIVE PseudoLoop(_, _, _), PseudoPart(_, _, _)
PseudoLoop(parts, re, out) ==
  IF parts = <<>> THEN [out |-> out, re |-> re]
  ELSE IF Head(parts) = "" THEN PseudoLoop(Tail(parts), re, out)
  ELSE PseudoPart(parts, RegExpTest(re, Head(parts)), out)
PseudoPart(parts, t, out) ==
  PseudoLoop(Tail(parts), t.re,
             out \o (IF t.found THEN Untouched(Head(parts)) ELSE Expanded(Head(parts))))

\* `${wrap.left}${out}${wrap.right}` with the default wrap
Wrapped(r) == [r EXCEPT !.out = WrapLeft \o r.out \o WrapRight]

\* pseudoTransform(text): [out, re], out being the text returned and re the
\* module's PLACEHOLDER_RE after the call
pseudoTransform(text, re) == Wrapped(PseudoLoop(SplitPlaceholders(text), re, ""))

\* the segments of pseudoUnits from segment k on, each with the pseudo text of
\* its source as target
RECURSIVE PseudoSegments(_, _, _), PseudoSegment(_, _, _)
PseudoSegments(segs, k, re) ==
  IF k > Len(segs) THEN <<>>
  ELSE PseudoSegment(segs, k, pseudoTransform(segs[k].source, re))
PseudoSegment(segs, k, r) ==
  << [segs[k] EXCEPT !.target = Some(r.out)] >> \o PseudoSegments(segs, k + 1, r.re)

\* PLACEHOLDER_RE after the calls of pseudoTransform on the segments from
\* segment k on
RECURSIVE ReAfterSegments(_, _, _)
ReAfterSegments(segs, k, re) ==
  IF k > Len(segs) THEN re
  ELSE ReAfterSegments(segs, k + 1, pseudoTransform(segs[k].source, re).re)

\* pseudoUnits for one unit, PLACEHOLDER_RE being as the module created it
pseudoUnits(u) ==
  [u EXCEPT !.segments =
     PseudoSegments(IF u.segments # <<>> THEN u.segments
                    ELSE << [id |-> u.id \o "_s0", source |-> u.source, target |-> Nothing,
                             start |-> Nothing, end |-> Nothing] >>,
                    1, NewRegExp("pseudoPlaceholder", TRUE))]

(***************************************************************************)
(* Validator.  A finding is [level, check, segment, detail]: the level,    *)
(* the check that made it, the id of the segment, and the lists its        *)
(* message gives.                                                          *)
(***************************************************************************)

\* the printable ASCII characters in the order of their codes: those from the
\* space (32) to the underscore (95), and those from a (97) on
AsciiLow == " !\"#$%&'()*+,-./0123456789:;<=>?@ABCDEFGHIJKLMNOPQRSTUVWXYZ[\\]^_"
AsciiHigh == "abcdefghijklmnopqrstuvwxyz{|}~"

\* the code unit of a character, by which sort() compares; every character
\* outside ASCII comes after the ASCII ones
CharOrder(c) ==
  IF IndexOf(AsciiLow, c, 0) # -1 THEN 32 + IndexOf(AsciiLow, c, 0)
  ELSE IF IndexOf(AsciiHigh, c, 0) # -1 THEN 97 + IndexOf(AsciiHigh, c, 0)
  ELSE 127

\* a < b in the order of Array.prototype.sort without a comparator
RECURSIVE StrLess(_, _)
StrLess(a, b) ==
  IF a = "" THEN b # ""
  ELSE IF b = "" THEN FALSE
  ELSE IF CharAt(a, 0) = CharAt(b, 0) THEN StrLess(SliceFrom(a, 1), SliceFrom(b, 1))
  ELSE CharOrder(CharAt(a, 0)) < CharOrder(CharAt(b, 0))

\* x put in its place in a sorted array, after the elements not above it
InsertSorted(x, sorted, n) == SubSeq(sorted, 1, n) \o << x >> \o SubSeq(sorted, n + 1, Len(sorted))

\* array.sort()
RECURSIVE Sort(_)
Sort(array) ==
  IF array = <<>> THEN <<>>
  ELSE InsertSorted(Head(array), Sort(Tail(array)),
                    Cardinality({ i \in DOMAIN Sort(Tail(array)) :
                                    StrLess(Sort(Tail(array))[i], Head(array)) }))

\* array.join(sep)
RECURSIVE JoinWith(_, _)
JoinWith(array, sep) ==
  IF array = <<>> THEN ""
  ELSE IF Len(array) = 1 THEN array[1]
  ELSE array[1] \o sep \o JoinWith(Tail(array), sep)

\* String(s).match(re) || [] for a pattern with the g flag: every match from
\* position from on, in order
RECURSIVE MatchAll(_, _, _), MatchAllFrom(_, _, _)
MatchAll(src, s, from) == MatchAllFrom(src, s, Search(src, s, from))
MatchAllFrom(src, s, m) ==
  IF m.index = -1 THEN <<>>
  ELSE << Slice(s, m.index, m.end) >> \o MatchAll(src, s, m.end)

\* the placeholders of a text as they come, not sorted
PlaceholdersInOrder(s) == MatchAll("listedPlaceholder", s, 0)

listPlaceholders(s) == Sort(MatchAll("listedPlaceholder", s, 0))

\* ICU_BLOCK_RE of the validator, /\{\s*[^{}]+,\s*(plural|select)\s*,[\s\S]*?\}/,
\* matched at p: the end, or -1.  At least one character lies between the
\* brace and the comma before the keyword.
ListedIcuIn(s, p, e) ==
  IF /\ CharAt(s, p) = "{"
     /\ \E c \in (p + 2)..(e - 1) : CharAt(s, c) = "," /\ IcuKeywordAt(s, c)
     /\ IndexOf(s, "}", e) # -1
  THEN IndexOf(s, "}", e) + 1 ELSE -1
ListedIcuAt(s, p) == ListedIcuIn(s, p, p + 1 + BraceFreeRun(s, p + 1))

\* String(s).match(ICU_BLOCK_RE) || []
RECURSIVE IcuBlocks(_), IcuBlocksFrom(_, _)
IcuBlocks(s) == IcuBlocksFrom(s, FirstFrom(ListedIcuAt, s, 0))
IcuBlocksFrom(s, p) ==
  IF p = -1 THEN <<>>
  ELSE << Slice(s, p, ListedIcuAt(s, p)) >> \o IcuBlocks(SliceFrom(s, ListedIcuAt(s, p)))

\* the category words of /\b(one|other|few|many|two|zero)\b/
CategoryWords == {"one", "other", "few", "many", "two", "zero"}

\* the word w between two word boundaries at p
WordAt(s, p, w) ==
  /\ StartsWithAt(s, w, p)
  /\ CharAt(s, p - 1) \notin WordChar
  /\ CharAt(s, p + Len(w)) \notin WordChar

\* the elements of a set of strings, sorted
RECURSIVE SortSet(_)
SortSet(S) ==
  IF S = {} THEN <<>>
  ELSE << CHOOSE x \in S : \A y \in S : ~StrLess(y, x) >>
       \o SortSet(S \ { CHOOSE x \in S : \A y \in S : ~StrLess(y, x) })

\* listIcuCategories: the category words found in the ICU blocks, sorted
CategoriesOf(blocks) ==
  SortSet({ w \in CategoryWords :
              \E k \in DOMAIN blocks : \E p \in 0..Len(blocks[k]) : WordAt(blocks[k], p, w) })
listIcuCategories(s) == CategoriesOf(IcuBlocks(s))

Finding(level, check, segment, detail) ==
  [level |-> level, check |-> check, segment |-> segment, detail |-> detail]

\* if (!tgt || String(tgt).trim().length === 0)
MissingTarget(id, tgt) ==
  IF Trim(tgt) = "" THEN << Finding("error", "Missing target", id, "") >> ELSE <<>>

\* if (srcPh.join('|') !== tgtPh.join('|'))
PlaceholderMismatch(id, srcPh, tgtPh) ==
  IF JoinWith(srcPh, "|") # JoinWith(tgtPh, "|")
  THEN << Finding("error", "Placeholder mismatch", id,
                  "src=" \o JoinWith(srcPh, ",") \o " tgt=" \o JoinWith(tgtPh, ",")) >>
  ELSE <<>>

\* ratio > factor, ratio being the length of the target over that of the source
LengthRatio(id, src, tgt, factor) ==
  IF Len(src) > 0 /\ Len(tgt) > factor * Len(src)
  THEN << Finding("warn", "length ratio", id, "") >> ELSE <<>>

\* if (srcCats.length && srcCats.join('|') !== tgtCats.join('|'))
IcuCategories(id, srcCats, tgtCats) ==
  IF srcCats # <<>> /\ JoinWith(srcCats, "|") # JoinWith(tgtCats, "|")
  THEN << Finding("error", "ICU categories differ", id,
                  "src=" \o JoinWith(srcCats, ",") \o " tgt=" \o JoinWith(tgtCats, ",")) >>
  ELSE <<>>

\* the body of the loop of validateUnit for a segment with source src and
\* target tgt (empty when the segment has none)
SegmentFindings(id, src, tgt, factor) ==
  MissingTarget(id, tgt)
  \o PlaceholderMismatch(id, listPlaceholders(src), listPlaceholders(tgt))
  \o LengthRatio(id, src, tgt, factor)
  \o IcuCategories(id, listIcuCategories(src), listIcuCategories(tgt))

\* s.target ?? ''
TargetOrEmpty(seg) == IF seg.target.some THEN seg.target.v ELSE ""

\* validateUnit: the findings of the segments from k on
RECURSIVE FindingsFrom(_, _, _)
FindingsFrom(segs, k, factor) ==
  IF k > Len(segs) THEN <<>>
  ELSE SegmentFindings(segs[k].id, segs[k].source, TargetOrEmpty(segs[k]), factor)
       \o FindingsFrom(segs, k + 1, factor)

\* opts.lengthFactor ?? 2
DefaultLengthFactor == 2

validateUnit(u, factor) ==
  FindingsFrom(IF u.segments # <<>> THEN u.segments
               ELSE << [id |-> u.id \o "_s0", source |-> u.source, target |-> Nothing,
                        start |-> Nothing, end |-> Nothing] >>,
               1, factor)

(***************************************************************************)
(* Sheets.  A worksheet is [name, rows]; rows[r] is row r, [hidden, cells], *)
(* and cells[c] the string of the cell in column c, "" for a cell without   *)
(* a value.  The cells of a row end at its last cell, so rows differ in     *)
(* length.  A sheet configuration is [sourceColumns, targetColumns,         *)
(* headerRow, valuesStartRow, metadataRows, skipHiddenRows,                 *)
(* createTargetIfMissing]; targetColumns is the sequence of [locale, col]   *)
(* in the order of the object.  The sheets of the model have no excluded    *)
(* rows or columns, hidden columns, merged cells or colours, and their      *)
(* namePattern is their name.                                               *)
(***************************************************************************)

\* the elements of a sequence
Range(seq) == { seq[i] : i \in DOMAIN seq }

\* ws.rowCount
rowCount(ws) == Len(ws.rows)

\* the text extraction reads in the cell of row r, column c
CellText(ws, r, c) ==
  IF r \in DOMAIN ws.rows /\ c \in DOMAIN ws.rows[r].cells THEN ws.rows[r].cells[c] ELSE ""

\* (sheetCfg.skipHiddenRows && row.hidden); no row of the model is excluded
RowSkipped(ws, sheetCfg, r) == sheetCfg.skipHiddenRows /\ ws.rows[r].hidden

\* sheetCfg.valuesStartRow ?? 2
ValuesStartRow(sheetCfg) == IF sheetCfg.valuesStartRow.some THEN sheetCfg.valuesStartRow.v ELSE 2

\* headerText of extractUnits for column cidx: the text of the cell of the
\* configured header row, "" when no header row is configured
HeaderText(ws, sheetCfg, cidx) ==
  IF sheetCfg.headerRow.some /\ sheetCfg.headerRow.v >= 1
  THEN CellText(ws, sheetCfg.headerRow.v, cidx) ELSE ""

\* map of extractUnits for column cidx: the texts of the configured metadata
\* rows that are not empty, by row
MetadataMap(ws, sheetCfg, cidx) ==
  [mr \in { m \in Range(sheetCfg.metadataRows) : CellText(ws, m, cidx) # "" } |->
     CellText(ws, mr, cidx)]

\* meta.headerName and meta.metadataRows set on a unit; a map without entries
\* is not set
WithContext(u, headerText, map) ==
  [u EXCEPT !.meta = [headerName |-> IF headerText # "" THEN Some(headerText) ELSE Nothing,
                      metadataRows |-> map] @@ u.meta]

\* a plain cell; node-html-parser is not called for it
PlainCell(text) == [value |-> text, dom |-> RootNode(<< TextNode(text) >>)]

\* the unit of extractUnits for the cell of row r in source column srcCol,
\* as a sequence of one unit or none
ContextUnit(u, ws, sheetCfg, cidx) ==
  IF u.some
  THEN << WithContext(u.v, HeaderText(ws, sheetCfg, cidx), MetadataMap(ws, sheetCfg, cidx)) >>
  ELSE <<>>
SheetCellUnit(ws, sheetCfg, config, r, colLetter) ==
  ContextUnit(extractUnit(PlainCell(CellText(ws, r, colLetterToIndex(colLetter))), ws.name, r,
                          colLetter, config.htmlEnabled, config.xliffVersion),
              ws, sheetCfg, colLetterToIndex(colLetter))

\* the loop of extractUnits over the source columns of row r, from the k-th on
RECURSIVE UnitsOfRow(_, _, _, _, _)
UnitsOfRow(ws, sheetCfg, config, r, k) ==
  IF k > Len(sheetCfg.sourceColumns) THEN <<>>
  ELSE SheetCellUnit(ws, sheetCfg, config, r, toUpperCase(sheetCfg.sourceColumns[k]))
       \o UnitsOfRow(ws, sheetCfg, config, r, k + 1)

\* the loop of extractUnits over the rows, from row r to ws.rowCount
RECURSIVE UnitsFromRow(_, _, _, _)
UnitsFromRow(ws, sheetCfg, config, r) ==
  IF r > rowCount(ws) THEN <<>>
  ELSE (IF RowSkipped(ws, sheetCfg, r) THEN <<>> ELSE UnitsOfRow(ws, sheetCfg, config, r, 1))
       \o UnitsFromRow(ws, sheetCfg, config, r + 1)

\* extractUnits for one sheet
extractUnits(ws, sheetCfg, config) ==
  UnitsFromRow(ws, sheetCfg, config, ValuesStartRow(sheetCfg))

(***************************************************************************)
(* extractStreamWorkbook.  The generator reads the rows in order; its state *)
(* is [rowIndex, next, headerCache, metaCache, units]: the number of the    *)
(* last row read, the place in sourceCols at which the loop over them goes  *)
(* on after a yield (0 when the generator is not in that loop), the header  *)
(* texts cached by column, the metadata texts cached by row and column, and *)
(* the units yielded so far.                                                *)
(***************************************************************************)

\* a function without arguments, as an empty cache
EmptyMap == [x \in {} |-> ""]

StreamStart == [rowIndex |-> 0, next |-> 0, headerCache |-> EmptyMap, metaCache |-> EmptyMap,
                units |-> <<>>]

\* (sheetCfg.sourceColumns || []).map(colLetterToIndex)
SourceCols(sheetCfg) ==
  [k \in DOMAIN sheetCfg.sourceColumns |-> colLetterToIndex(sheetCfg.sourceColumns[k])]

\* sheetCfg.headerRow ?? 1
StreamHeaderRow(sheetCfg) == IF sheetCfg.headerRow.some THEN sheetCfg.headerRow.v ELSE 1

\* the texts of row r in the source columns that are not empty, by column
RowTexts(ws, sheetCfg, r) ==
  [c \in { x \in Range(SourceCols(sheetCfg)) : CellText(ws, r, x) # "" } |-> CellText(ws, r, c)]

\* m of the stream for column srcIdx: what the cache holds of the configured
\* metadata rows
CachedMetadata(metaCache, sheetCfg, srcIdx) ==
  [mr \in { m \in Range(sheetCfg.metadataRows) :
              m \in DOMAIN metaCache /\ srcIdx \in DOMAIN metaCache[m] } |->
     metaCache[mr][srcIdx]]

\* the unit the stream yields for the text of row r, column srcIdx
StreamUnit(ws, sheetCfg, st, r, srcIdx) ==
  [id |-> ws.name \o "::R" \o Digits(r) \o "C" \o colIndexToLetter(srcIdx),
   sheetName |-> ws.name, row |-> r, col |-> colIndexToLetter(srcIdx),
   source |-> CellText(ws, r, srcIdx),
   segments |-> <<>>,
   meta |-> [headerName |-> IF srcIdx \in DOMAIN st.headerCache
                            THEN Some(st.headerCache[srcIdx]) ELSE Nothing,
             metadataRows |-> CachedMetadata(st.metaCache, sheetCfg, srcIdx)]]

\* the loop over sourceCols for row r from the k-th column on, up to the
\* next yield or to the end of the loop
RECURSIVE StreamToYield(_, _, _, _, _)
StreamToYield(ws, sheetCfg, st, r, k) ==
  IF k > Len(sheetCfg.sourceColumns) THEN [st EXCEPT !.next = 0]
  ELSE IF CellText(ws, r, SourceCols(sheetCfg)[k]) = ""
  THEN StreamToYield(ws, sheetCfg, st, r, k + 1)
  ELSE [st EXCEPT !.units = Append(st.units,
                                   StreamUnit(ws, sheetCfg, st, r, SourceCols(sheetCfg)[k])),
                  !.next = k + 1]

\* the body of the row loop of extractStreamWorkbook for row r, up to its
\* first yield
StreamRowBody(ws, sheetCfg, st, r) ==
  IF StreamHeaderRow(sheetCfg) # 0 /\ r = StreamHeaderRow(sheetCfg)
  THEN [st EXCEPT !.rowIndex = r, !.headerCache = RowTexts(ws, sheetCfg, r) @@ st.headerCache]
  ELSE IF r \in Range(sheetCfg.metadataRows)
  THEN [st EXCEPT !.rowIndex = r,
                  !.metaCache = IF DOMAIN RowTexts(ws, sheetCfg, r) # {}
                                THEN (r :> RowTexts(ws, sheetCfg, r)) @@ st.metaCache
                                ELSE st.metaCache]
  ELSE IF r < ValuesStartRow(sheetCfg) \/ RowSkipped(ws, sheetCfg, r)
  THEN [st EXCEPT !.rowIndex = r]
  ELSE StreamToYield(ws, sheetCfg, [st EXCEPT !.rowIndex = r], r, 1)

(***************************************************************************)
(* mergeWorkbook on a sheet                                                *)
(***************************************************************************)

\* the cells of a row up to column c, the missing ones without a value
PadRow(cells, c) ==
  IF c > Len(cells) THEN cells \o [i \in 1..(c - Len(cells)) |-> ""] ELSE cells

\* ws.getCell(r, c): the cell exists afterwards
getCell(ws, r, c) == [ws EXCEPT !.rows[r].cells = PadRow(ws.rows[r].cells, c)]

\* cell.value = text
SetCell(ws, r, c, text) == [ws EXCEPT !.rows[r].cells[c] = text]

\* row.splice(start, 0, null): the cells from start on move one column to
\* the right, and the cell at start is a new one without a value
SpliceRow(cells, start) ==
  IF start <= Len(cells)
  THEN SubSeq(cells, 1, start - 1) \o << "" >> \o SubSeq(cells, start, Len(cells))
  ELSE PadRow(cells, start)

\* ws.spliceColumns(start, 0, [])
spliceColumns(ws, start) ==
  [ws EXCEPT !.rows = [r \in DOMAIN ws.rows |->
                         [ws.rows[r] EXCEPT !.cells = SpliceRow(ws.rows[r].cells, start)]]]

\* the greatest of a set of numbers, 0 for the empty set
Max(S) == IF S = {} THEN 0 ELSE CHOOSE i \in S : \A j \in S : j <= i

\* ws.columnCount
columnCount(ws) == Max({ Len(ws.rows[r].cells) : r \in DOMAIN ws.rows })

\* config.global?.insertTargetPlacement ?? 'insertAfterSource'
PlacementOf(config) ==
  IF config.insertTargetPlacement.some THEN config.insertTargetPlacement.v
  ELSE "insertAfterSource"

\* ensureTargetColumn: [ws, idx], the sheet afterwards and the target column
ensureTargetColumn(ws, desiredLetter, placement, sourceColIndex) ==
  IF Trim(desiredLetter) # ""
  THEN [ws |-> ws, idx |-> colLetterToIndex(desiredLetter)]
  ELSE IF placement = "insertAfterSource"
  THEN [ws |-> spliceColumns(ws, sourceColIndex + 1), idx |-> sourceColIndex + 1]
  ELSE [ws |-> spliceColumns(ws, columnCount(ws) + 1), idx |-> columnCount(ws) + 1]

\* overwrite taken as set whatever the configuration says
AlwaysOverwrite(config) == TRUE

\* config.global?.overwrite ?? true
OverwriteOf(config) == IF config.overwrite.some THEN config.overwrite.v ELSE TRUE

\* if (finalText !== '') cell.value = finalText
WriteFinal(ws, r, c, finalText) == IF finalText # "" THEN SetCell(ws, r, c, finalText) ELSE ws

\* the body of the loop over the target columns for unit tu, t being what
\* ensureTargetColumn returned
MergeEntry(t, tu, config) ==
  IF ~OverwriteOf(config) THEN getCell(t.ws, tu.row, t.idx)
  ELSE WriteFinal(getCell(t.ws, tu.row, t.idx), tu.row, t.idx,
                  MergedText(tu, config.mergeFallback))

\* entries: the target columns of the locale the unit prefers, or all of them
EntriesOf(targetColumns, tu) ==
  IF tu.meta.targetLocale.some
  THEN SelectSeq(targetColumns, LAMBDA e : e.locale = tu.meta.targetLocale.v)
  ELSE targetColumns

\* the loop over the entries of unit tu from the j-th on
RECURSIVE MergeEntries(_, _, _, _, _)
MergeEntries(ws, tu, entries, j, config) ==
  IF j > Len(entries) THEN ws
  ELSE MergeEntries(MergeEntry(ensureTargetColumn(ws, entries[j].col, PlacementOf(config),
                                                  colLetterToIndex(tu.col)),
                               tu, config),
                    tu, entries, j + 1, config)

\* the loop over the units of the sheet from the i-th on
RECURSIVE MergeUnits(_, _, _, _, _)
MergeUnits(ws, sheetCfg, translatedUnits, i, config) ==
  IF i > Len(translatedUnits) THEN ws
  ELSE MergeUnits(IF translatedUnits[i].sheetName = ws.name
                  THEN MergeEntries(ws, translatedUnits[i],
                                    EntriesOf(sheetCfg.targetColumns, translatedUnits[i]),
                                    1, config)
                  ELSE ws,
                  sheetCfg, translatedUnits, i + 1, config)

\* the checks of mergeWorkbook on the target columns: two locales on one
\* column, or more than one column to create
TargetColumnsRejected(sheetCfg) ==
  \/ \E a, b \in DOMAIN sheetCfg.targetColumns :
       /\ a # b
       /\ sheetCfg.targetColumns[a].col # ""
       /\ toUpperCase(sheetCfg.targetColumns[a].col) = toUpperCase(sheetCfg.targetColumns[b].col)
  \/ /\ Cardinality({ a \in DOMAIN sheetCfg.targetColumns : sheetCfg.targetColumns[a].col = "" }) > 1
     /\ sheetCfg.createTargetIfMissing

\* mergeWorkbook for one sheet: [failed, ws], ws being the sheet written to
\* the output file; nothing is written when it throws
mergeWorkbook(ws, sheetCfg, translatedUnits, config) ==
  IF TargetColumnsRejected(sheetCfg) THEN [failed |-> TRUE, ws |-> ws]
  ELSE [failed |-> FALSE, ws |-> MergeUnits(ws, sheetCfg, translatedUnits, 1, config)]

(***************************************************************************)
(* A workbook of several worksheets under a configuration of several sheet *)
(* entries.  An entry is a sheet configuration with its namePattern,       *)
(* sourceLocale and inlineCodeRegexes.  A namePattern is a run of letters  *)
(* and digits, such a run between ^ and $, or a source that does not       *)
(* compile.                                                                *)
(***************************************************************************)

\* the sources new RegExp(namePattern) throws a SyntaxError for
InvalidNamePatterns == {"*", "Data("}

\* the pattern is anchored at both ends
Anchored(namePattern) ==
  /\ Len(namePattern) >= 2
  /\ StartsWithAt(namePattern, "^", 0)
  /\ StartsWithAt(namePattern, "$", Len(namePattern) - 1)

\* new RegExp(namePattern).test(name) for a pattern that compiles
NamePatternTest(namePattern, name) ==
  IF Anchored(namePattern) THEN name = Slice(namePattern, 1, Len(namePattern) - 1)
  ELSE Includes(name, namePattern)

\* the callback of find in regexesForUnit and getLocaleForUnit and of filter
\* in extractStreamWorkbook: the test or equality, equality alone when the
\* pattern does not compile
SheetCfgMatches(namePattern, name) ==
  IF namePattern \in InvalidNamePatterns THEN namePattern = name
  ELSE NamePatternTest(namePattern, name) \/ namePattern = name

\* normalizeSheetMatch: the test for a pattern that starts with ^, ends with
\* $ or holds [ or (, equality for any other and for one that does not
\* compile
normalizeSheetMatch(namePattern, sheetName) ==
  IF /\ \/ StartsWithAt(namePattern, "^", 0)
        \/ StartsWithAt(namePattern, "$", Len(namePattern) - 1)
        \/ Includes(namePattern, "[")
        \/ Includes(namePattern, "(")
     /\ namePattern \notin InvalidNamePatterns
  THEN NamePatternTest(namePattern, sheetName)
  ELSE namePattern = sheetName

\* config.workbook.sheets.find(...): the index of the first entry whose
\* pattern matches the name of the unit's sheet, 0 when there is none
FindSheetCfg(sheets, sheetName) ==
  IF \E k \in DOMAIN sheets : SheetCfgMatches(sheets[k].namePattern, sheetName)
  THEN Min({ k \in DOMAIN sheets : SheetCfgMatches(sheets[k].namePattern, sheetName) })
  ELSE 0

\* sheetCfg?.sourceLocale and sheetCfg?.inlineCodeRegexes || [] for the
\* entry at index k, in the configuration of the unit
WithSheetCfg(config, sheets, k) ==
  IF k = 0 THEN [config EXCEPT !.sourceLocale = Nothing, !.inlineCodeRegexes = <<>>]
  ELSE [config EXCEPT !.sourceLocale = sheets[k].sourceLocale,
                      !.inlineCodeRegexes = sheets[k].inlineCodeRegexes]
ConfigOfUnit(config, sheets, u) == WithSheetCfg(config, sheets, FindSheetCfg(sheets, u.sheetName))

\* the loops of extractUnits over the entries and the worksheets each
\* selects, from entry k and worksheet w on
RECURSIVE ExtractFrom(_, _, _, _, _)
ExtractFrom(worksheets, sheets, config, k, w) ==
  IF k > Len(sheets) THEN <<>>
  ELSE IF w > Len(worksheets) THEN ExtractFrom(worksheets, sheets, config, k + 1, 1)
  ELSE (IF normalizeSheetMatch(sheets[k].namePattern, worksheets[w].name)
        THEN extractUnits(worksheets[w], sheets[k], config)
        ELSE <<>>)
       \o ExtractFrom(worksheets, sheets, config, k, w + 1)

\* the outcome of one unit before the outcome of the units after it
Joined(o, rest) == [failed |-> o.failed \/ rest.failed, units |-> o.units \o rest.units]

\* units.map of segmentUnits from unit i on, srxRules being the loaded rules
\* as the units before left them: [failed, units]
RECURSIVE SegmentFrom(_, _, _, _, _)
SegmentedFrom(o, unitList, sheets, config, i) ==
  Joined(o, SegmentFrom(unitList, sheets, config, o.srxRules, i + 1))
SegmentFrom(unitList, sheets, config, srxRules, i) ==
  IF i > Len(unitList) THEN [failed |-> FALSE, units |-> <<>>]
  ELSE SegmentedFrom(SegmentOne(unitList[i], ConfigOfUnit(config, sheets, unitList[i]), srxRules),
                     unitList, sheets, config, i)

\* units.map of segmentUnits on the units of one sheet from unit i on,
\* srxRules being the loaded rules as the units before left them:
\* [failed, units]
RECURSIVE SegmentEach(_, _, _, _)
SegmentedEach(o, unitList, config, i) ==
  Joined(o, SegmentEach(unitList, config, o.srxRules, i + 1))
SegmentEach(unitList, config, srxRules, i) ==
  IF i > Len(unitList) THEN [failed |-> FALSE, units |-> <<>>]
  ELSE SegmentedEach(SegmentOne(unitList[i], config, srxRules), unitList, config, i)

\* extract of index.ts on the workbook: extractUnits, then segmentUnits
extract(worksheets, sheets, config) ==
  SegmentFrom(ExtractFrom(worksheets, sheets, config, 1, 1), sheets, config, SrxRulesOf(config), 1)

\* exportToXliff on the units of a workbook, each with regexesForUnit of the
\* entry found for its sheet
exportUnitsToXliff(unitList, sheets, config, options) ==
  XliffDocument(config.xliffVersion, SrcLangOf(config, options), options.trgLang,
                [k \in DOMAIN unitList |->
                   UnitElement(unitList[k],
                               regexesForUnit(ConfigOfUnit(config, sheets, unitList[k]).inlineCodeRegexes))])

\* the loops of mergeWorkbook over the entries and the worksheets of each,
\* from entry k and worksheet w on: [failed, worksheets]; new RegExp of the
\* filter callback throws for a pattern that does not compile
RECURSIVE MergeFrom(_, _, _, _, _, _)
MergedSheet(outcome, worksheets, sheets, translatedUnits, config, k, w) ==
  IF outcome.failed THEN [failed |-> TRUE, worksheets |-> worksheets]
  ELSE MergeFrom([worksheets EXCEPT ![w] = outcome.ws], sheets, translatedUnits, config, k, w + 1)
MergeFrom(worksheets, sheets, translatedUnits, config, k, w) ==
  IF k > Len(sheets) THEN [failed |-> FALSE, worksheets |-> worksheets]
  ELSE IF worksheets # <<>> /\ sheets[k].namePattern \in InvalidNamePatterns
  THEN [failed |-> TRUE, worksheets |-> worksheets]
  ELSE IF w > Len(worksheets) THEN MergeFrom(worksheets, sheets, translatedUnits, config, k + 1, 1)
  ELSE IF \/ NamePatternTest(sheets[k].namePattern, worksheets[w].name)
          \/ sheets[k].namePattern = worksheets[w].name
  THEN MergedSheet(mergeWorkbook(worksheets[w], sheets[k], translatedUnits, config),
                   worksheets, sheets, translatedUnits, config, k, w)
  ELSE MergeFrom(worksheets, sheets, translatedUnits, config, k, w + 1)

\* merge of index.ts on the workbook
merge(worksheets, sheets, translatedUnits, config) ==
  MergeFrom(worksheets, sheets, translatedUnits, config, 1, 1)

(***************************************************************************)
(* The pipeline on one cell of a sheet: extract (with segmentation),       *)
(* export to XLIFF, parse the XLIFF back, translator edits, merge into the *)
(* target cell.  Units can also be edited and merged without the XLIFF     *)
(* step in between.                                                        *)
(***************************************************************************)

VARIABLES config, cell, extracted, resegmented, units, xlf, edit, targetCell, findings,
          sheet, sheetCfg, listed, stream, outSheet, skeleton, composed,
          book, outBook, calls, placeholderRe, pc

\* the variables of the pipeline on one cell but edit, and those of the
\* operations on a whole sheet
cellVars == << cell, extracted, resegmented, units, xlf, targetCell, findings >>
sheetVars == << sheet, sheetCfg, listed, stream, outSheet >>
\* what htmlToSkeleton returned for the cell, and the HTML composed from it
htmlVars == << skeleton, composed >>
\* the workbook [worksheets, sheets] with the entries of its configuration,
\* and what merge made of its worksheets
bookVars == << book, outBook >>
\* the calls of pseudoTransform so far, each [text, out], and the module's
\* PLACEHOLDER_RE
pseudoVars == << calls, placeholderRe >>

vars == << config, cell, extracted, resegmented, units, xlf, edit, targetCell, findings,
           sheet, sheetCfg, listed, stream, outSheet, skeleton, composed,
           book, outBook, calls, placeholderRe, pc >>

MaxTextLen == 4
MaxDepth == 1
MaxChildren == 1

SheetName == "Sheet1"
SourceRow == 2
SourceCol == "A"

\* the characters generated cell texts are made of
TextAlphabet == {"a", "B", ".", " "}

RECURSIVE TextsOfLen(_)
TextsOfLen(n) ==
  IF n = 0 THEN {""} ELSE { t \o c : t \in TextsOfLen(n - 1), c \in TextAlphabet }

GeneratedTexts == UNION { TextsOfLen(n) : n \in 0..MaxTextLen }

\* texts of the tests and the documentation
SampleTexts ==
  { "Hello world. How are you?",
    "A. B. C.",
    "A.  B. C",
    "Dr. Smith went home." }

\* texts with inline codes and ICU messages
CodeTexts ==
  { "{count, plural, one {1 file} other {# files}}",
    "Hello {0}, you have %s items",
    "%s{1}%s",
    "{0}. B%s",
    "{0} and {0}",
    "100% sure {x}" }

\* a cell holding the well-formed fragment of a tree
HtmlCell(tree) == [value |-> HtmlOf(tree), dom |-> RootNode(<< tree >>)]

\* the tag and attribute combinations of generated fragments
TagChoices ==
  { << "p", "" >>, << "b", "" >>,
    << "a", "href=\"/shop\" class=\"link\"" >>,
    << "a", "href=\"?a=1&amp;b=2\"" >> }

RECURSIVE TreesOfDepth(_)
TreesOfDepth(d) ==
  IF d = 0 THEN { TextNode("Hi") }
  ELSE LET sub == TreesOfDepth(d - 1)
           kids == UNION { [1..n -> sub] : n \in 1..MaxChildren }
       IN sub \cup { Element(tc[1], tc[2], k) : tc \in TagChoices, k \in kids }

\* elements only: a bare text is a plain cell
GeneratedTrees == { t \in TreesOfDepth(MaxDepth) : t.nodeType = 1 }

\* fragments of the tests
SampleTrees ==
  { Element("div", "", << TextNode("Visit "),
                          Element("a", "href=\"/shop\" class=\"link\"", << TextNode("our shop") >>),
                          TextNode(" today.") >>),
    Element("p", "", << TextNode("This is "),
                        Element("b", "", << TextNode("bold and "),
                                            Element("i", "", << TextNode("italic") >>),
                                            TextNode(" text") >>),
                        TextNode(" here.") >>),
    Element("p", "", << Element("b", "", << TextNode("x "),
                                            Element("b", "", << Element("b", "", << TextNode("y") >>) >>),
                                            TextNode(" z") >>),
                        Element("b", "", << TextNode("w") >>) >>) }

\* "<div>Unclosed div": node-html-parser closes the element at the end of input
UnclosedDiv ==
  [value |-> "<div>Unclosed div",
   dom   |-> RootNode(<< Element("div", "", << TextNode("Unclosed div") >>) >>)]

Config(version, regs, segmentation, mergeFallback) ==
  [xliffVersion |-> version, inlineCodeRegexes |-> regs,
   segmentation |-> segmentation, mergeFallback |-> mergeFallback, htmlEnabled |-> TRUE,
   srx |-> Nothing, sourceLocale |-> Nothing, srcLang |-> Nothing,
   overwrite |-> Nothing, insertTargetPlacement |-> Nothing]

\* a rule of an SRX file, and the rule sets of the sample files: one that
\* never breaks, one that breaks after a full stop that white space follows,
\* one that breaks at every boundary, one whose only rule does not compile
SrxRule(break, beforebreak, afterbreak) ==
  [break |-> break, beforebreak |-> beforebreak, afterbreak |-> afterbreak]
NeverBreak == << SrxRule("no", Nothing, Nothing) >>
AfterFullStop == << SrxRule("yes", Some("\\.$"), Some("^\\s")) >>
AlwaysBreak == << SrxRule("yes", Some(""), Nothing) >>
BadRule == << SrxRule("yes", Some("("), Nothing) >>

SrxFile(languagerules, languagemaps) ==
  [readable |-> TRUE, languagerules |-> languagerules, languagemaps |-> languagemaps]
LanguageRule(name, rule) == [name |-> name, rule |-> rule]
LanguageMap(pattern, name) == [languagepattern |-> pattern, languagerulename |-> name]

\* SRX files: a French rule set before a default; a map that does not
\* compile, a map to a rule set the file does not define and a catch-all; a
\* rule set with patterns of its own; a rule set that compiles to nothing; a rule set named like an inherited
\* property; a file that cannot be read
SrxFiles ==
  { SrxFile(<< LanguageRule("French", AlwaysBreak), LanguageRule("Default", NeverBreak) >>,
            << LanguageMap("fr", "French"), LanguageMap(".*", "Default") >>),
    SrxFile(<< LanguageRule("Default", NeverBreak) >>,
            << LanguageMap("(", "Default"), LanguageMap("EN", "Missing"),
               LanguageMap(".*", "Default") >>),
    SrxFile(<< LanguageRule("Default", AfterFullStop) >>,
            << LanguageMap(".*", "Default") >>),
    SrxFile(<< LanguageRule("Default", BadRule) >>,
            << LanguageMap(".*", "Default") >>),
    SrxFile(<<>>, << LanguageMap("en", "constructor") >>),
    SrxFile(<<>>, << LanguageMap("en", "toString") >>),
    [readable |-> FALSE, languagerules |-> <<>>, languagemaps |-> <<>>] }

\* sheet.sourceLocale and global.srcLang
Locales == { << Nothing, Nothing >>, << Some("fr-CA"), Some("en") >>, << Nothing, Some("de") >> }

\* the texts segmented with SRX rules: one of a single character, one of
\* two sentences, one of three
SrxTexts == {"a", "a. B", "A. B. C."}

SrxInputs ==
  { << PlainCell(t),
       [Config("2.1", <<>>, TRUE, Some("source")) EXCEPT
          !.srx = Some(f), !.sourceLocale = l[1], !.srcLang = l[2]] >> :
      t \in SrxTexts, f \in SrxFiles, l \in Locales }

InlineCodeRegexes == << "\\{\\d+\\}", "%s" >>

TextInputs ==
  { << PlainCell(t), Config("2.1", <<>>, seg, Some("source")) >> :
      t \in GeneratedTexts \cup SampleTexts, seg \in BOOLEAN }
  \cup { << PlainCell(t), Config("2.1", InlineCodeRegexes, TRUE, Some("source")) >> :
           t \in CodeTexts }

\* "<p></p>": an HTML cell without text, whose unit has an empty source
EmptyParagraph == Element("p", "", <<>>)

\* "<p>See <b>A. B</b></p>": two sentences in one inline element
TwoSentencesInBold ==
  Element("p", "", << TextNode("See "), Element("b", "", << TextNode("A. B") >>) >>)

HtmlInputs ==
  { << c, Config(v, <<>>, TRUE, Some("source")) >> :
      c \in { HtmlCell(t) : t \in GeneratedTrees \cup SampleTrees
                                     \cup {EmptyParagraph, TwoSentencesInBold} }
             \cup { UnclosedDiv },
      v \in {"2.1", "1.2"} }

\* a list of patterns whose second matches the digits of the markers the
\* first leaves, and a list of one pattern that matches in the leaf of an
\* ICU message
NumberRegexes == << "%s", "\\d+" >>
PercentRegexes == << "%s" >>
OverlapInputs ==
  { << PlainCell("%s 5"), Config("2.1", NumberRegexes, TRUE, Some("source")) >>,
    << PlainCell("{n, plural, one {%s file}}"),
       Config("2.1", PercentRegexes, TRUE, Some("source")) >> }

\* the sample texts under the other settings of global.mergeFallback: 'empty',
\* and not set
FallbackInputs ==
  { << PlainCell(t), Config("2.1", <<>>, seg, mf) >> :
      t \in SampleTexts, seg \in BOOLEAN, mf \in {Some("empty"), Nothing} }

InitWith(inputs) ==
  /\ \E in \in inputs : cell = in[1] /\ config = in[2]
  /\ extracted = <<>> /\ resegmented = <<>>
  /\ units = <<>>
  /\ xlf = Nothing
  /\ edit = Nothing
  /\ targetCell = Nothing
  /\ findings = Nothing
  /\ pc = "cell"

\* a row of a sheet
Row(hidden, cells) == [hidden |-> hidden, cells |-> cells]

SheetCfg(sourceColumns, targetColumns, headerRow, valuesStartRow, metadataRows,
         skipHiddenRows, createTargetIfMissing) ==
  [sourceColumns |-> sourceColumns, targetColumns |-> targetColumns,
   headerRow |-> headerRow, valuesStartRow |-> valuesStartRow,
   metadataRows |-> metadataRows, skipHiddenRows |-> skipHiddenRows,
   createTargetIfMissing |-> createTargetIfMissing]

TargetColumn(locale, col) == [locale |-> locale, col |-> col]

\* the sheet without rows the pipeline on one cell leaves alone
NoSheet == [name |-> "", rows |-> <<>>]
NoSheetCfg == SheetCfg(<<>>, <<>>, Nothing, Nothing, <<>>, FALSE, FALSE)

\* the names of the sheets
SheetNames == {"Sheet1", "My Sheet"}

\* the book of the hidden-rows test: a hidden header row, a value, and a
\* hidden metadata row below it
HiddenMetaRows ==
  << Row(TRUE, << "HeaderA" >>), Row(FALSE, << "Value" >>), Row(TRUE, << "Meta Row" >>) >>
HiddenMetaCfg ==
  SheetCfg(<< "A" >>, << TargetColumn("fr", "B") >>, Some(1), Some(2), << 3 >>, TRUE, FALSE)

\* the book of the merge options test: the target column is to be created,
\* and column C holds a value
OptionsRows == << Row(FALSE, << "Header" >>), Row(FALSE, << "Source", "", "Existing" >>) >>
OptionsCfg ==
  SheetCfg(<< "A" >>, << TargetColumn("fr", "") >>, Some(1), Some(2), <<>>, FALSE, TRUE)

\* a book with two source columns, a metadata row above the values, two
\* value rows and no header row configured
TwoColumnRows ==
  << Row(FALSE, << "Name", "Text" >>), Row(FALSE, << "note", "" >>),
     Row(FALSE, << "x", "Hi {0}" >>), Row(FALSE, << "", "B. a" >>) >>
TwoColumnCfg ==
  SheetCfg(<< "a", "B" >>, << TargetColumn("fr", "") >>, Nothing, Some(3), << 2 >>, FALSE, TRUE)

\* the same book with two target columns to be created
TwoTargetsCfg ==
  SheetCfg(<< "a", "B" >>, << TargetColumn("fr", ""), TargetColumn("de", "") >>,
           Nothing, Some(3), << 2 >>, FALSE, TRUE)

\* the book of the merge options test with a second value row
TwoRowsRows ==
  << Row(FALSE, << "Header" >>), Row(FALSE, << "One", "Keep" >>), Row(FALSE, << "Two" >>) >>

Books ==
  { << HiddenMetaRows, HiddenMetaCfg >>, << OptionsRows, OptionsCfg >>,
    << TwoRowsRows, OptionsCfg >>,
    << TwoColumnRows, TwoColumnCfg >>, << TwoColumnRows, TwoTargetsCfg >> }

SheetInputs ==
  { << [name |-> n, rows |-> b[1]], b[2],
       [Config("2.1", <<>>, FALSE, Some("source")) EXCEPT
          !.overwrite = o, !.insertTargetPlacement = p] >> :
      n \in SheetNames, b \in Books, o \in {Nothing, Some(TRUE), Some(FALSE)},
      p \in {Nothing, Some("insertAfterSource"), Some("appendToSheetEnd")} }

\* an entry of config.workbook.sheets for source column A and one target
\* column
SheetEntry(namePattern, sourceLocale, inlineCodeRegexes, targetCol) ==
  [namePattern |-> namePattern, sourceLocale |-> sourceLocale,
   inlineCodeRegexes |-> inlineCodeRegexes,
   sourceColumns |-> << "A" >>, targetColumns |-> << TargetColumn("fr", targetCol) >>,
   headerRow |-> Some(1), valuesStartRow |-> Some(2), metadataRows |-> <<>>,
   skipHiddenRows |-> FALSE, createTargetIfMissing |-> FALSE]

\* entries for the sheet Data, for the sheet Data2 with a pattern among its
\* inline codes that does not compile, for the sheet Data alone, and for
\* every sheet as a glob writes it
SheetEntries ==
  { SheetEntry("Data", Some("fr"), << "\\{\\d+\\}" >>, "B"),
    SheetEntry("Data2", Some("de"), << "(", "%s" >>, "C"),
    SheetEntry("^Data$", Some("de"), <<>>, "C"),
    SheetEntry("*", Nothing, <<>>, "D") }

\* the worksheets of the workbooks: a header and two sentences with inline
\* codes in A2
DataRows == << Row(FALSE, << "Header" >>), Row(FALSE, << "A. B {0} %s" >>) >>
Worksheets ==
  { << [name |-> "Data", rows |-> DataRows] >>,
    << [name |-> "Data2", rows |-> DataRows] >>,
    << [name |-> "Data", rows |-> DataRows], [name |-> "Data2", rows |-> DataRows] >> }

\* an SRX file whose rules for French never break and that has no rules for
\* any other language
FrenchOnly == SrxFile(<< LanguageRule("French", NeverBreak) >>, << LanguageMap("fr", "French") >>)

\* workbooks under one entry or two
BookInputs ==
  { [worksheets |-> w, sheets |-> s] :
      w \in Worksheets,
      s \in { << a >> : a \in SheetEntries }
             \cup { p \in { << a, c >> : a \in SheetEntries, c \in SheetEntries } : p[1] # p[2] } }

NoBook == [worksheets |-> <<>>, sheets |-> <<>>]

\* the pipeline on one cell starts from a cell, the operations on a sheet
\* from a book
CellInit ==
  /\ calls = <<>> /\ placeholderRe = NewRegExp("pseudoPlaceholder", TRUE)
  /\ book = NoBook /\ outBook = Nothing
  /\ InitWith(TextInputs \cup HtmlInputs \cup FallbackInputs \cup SrxInputs \cup OverlapInputs)
  /\ sheet = NoSheet /\ sheetCfg = NoSheetCfg
  /\ listed = Nothing /\ stream = StreamStart /\ outSheet = Nothing
  /\ skeleton = Nothing /\ composed = Nothing

SheetInit ==
  /\ calls = <<>> /\ placeholderRe = NewRegExp("pseudoPlaceholder", TRUE)
  /\ book = NoBook /\ outBook = Nothing
  /\ \E in \in SheetInputs : sheet = in[1] /\ sheetCfg = in[2] /\ config = in[3]
  /\ cell = PlainCell("") /\ extracted = <<>> /\ resegmented = <<>> /\ units = <<>> /\ xlf = Nothing
  /\ edit = Nothing /\ targetCell = Nothing /\ findings = Nothing
  /\ listed = Nothing /\ stream = StreamStart /\ outSheet = Nothing
  /\ skeleton = Nothing /\ composed = Nothing
  /\ pc = "sheet"

\* two paragraphs in a block, and the fragment of the composer's test
TwoParagraphs ==
  Element("div", "", << Element("p", "", << TextNode("One") >>),
                        Element("p", "", << TextNode("Two") >>) >>)
BoldInDiv ==
  Element("div", "", << TextNode("Hello, "), Element("b", "", << TextNode("bold") >>),
                        TextNode(" text.") >>)

\* the fragments htmlToSkeleton is called on
SkeletonTrees == GeneratedTrees \cup SampleTrees \cup {TwoParagraphs, BoldInDiv}

\* htmlToSkeleton and composeHtmlFromSkeleton start from an HTML fragment
HtmlInit ==
  /\ calls = <<>> /\ placeholderRe = NewRegExp("pseudoPlaceholder", TRUE)
  /\ book = NoBook /\ outBook = Nothing
  /\ \E t \in SkeletonTrees : cell = HtmlCell(t)
  /\ config = Config("2.1", <<>>, FALSE, Some("source"))
  /\ extracted = <<>> /\ resegmented = <<>> /\ units = <<>> /\ xlf = Nothing
  /\ edit = Nothing /\ targetCell = Nothing /\ findings = Nothing
  /\ sheet = NoSheet /\ sheetCfg = NoSheetCfg
  /\ listed = Nothing /\ stream = StreamStart /\ outSheet = Nothing
  /\ skeleton = Nothing /\ composed = Nothing
  /\ pc = "html"

\* the operations on a workbook start from its worksheets and the entries
\* of its configuration
BookInit ==
  /\ calls = <<>> /\ placeholderRe = NewRegExp("pseudoPlaceholder", TRUE)
  /\ book \in BookInputs
  /\ config = [Config("2.1", <<>>, TRUE, Some("source")) EXCEPT !.srx = Some(FrenchOnly)]
  /\ cell = PlainCell("") /\ extracted = <<>> /\ resegmented = <<>> /\ units = <<>> /\ xlf = Nothing
  /\ edit = Nothing /\ targetCell = Nothing /\ findings = Nothing
  /\ sheet = NoSheet /\ sheetCfg = NoSheetCfg
  /\ listed = Nothing /\ stream = StreamStart /\ outSheet = Nothing
  /\ skeleton = Nothing /\ composed = Nothing
  /\ outBook = Nothing
  /\ pc = "book"

\* the texts pseudoTransform is called on one after the other, and the
\* number of calls
PseudoTexts == {"Hi", "Hi {0}", "{0}", "%s"}
MaxCalls == 3

\* a program that calls pseudoTransform starts with the module loaded
PseudoInit ==
  /\ calls = <<>> /\ placeholderRe = NewRegExp("pseudoPlaceholder", TRUE)
  /\ book = NoBook /\ outBook = Nothing
  /\ cell = PlainCell("") /\ config = Config("2.1", <<>>, FALSE, Some("source"))
  /\ extracted = <<>> /\ resegmented = <<>> /\ units = <<>> /\ xlf = Nothing
  /\ edit = Nothing /\ targetCell = Nothing /\ findings = Nothing
  /\ sheet = NoSheet /\ sheetCfg = NoSheetCfg
  /\ listed = Nothing /\ stream = StreamStart /\ outSheet = Nothing
  /\ skeleton = Nothing /\ composed = Nothing
  /\ pc = "pseudo"

Init == CellInit \/ SheetInit \/ HtmlInit \/ BookInit \/ PseudoInit

\* the units of the cell segmented, or the failure of segmentUnits
Segmented(outcome) ==
  /\ extracted' = outcome.units
  /\ units' = outcome.units
  /\ pc' = IF outcome.failed THEN "failed" ELSE "extracted"

\* extract of index.ts: extractUnits, then segmentUnits
Extract ==
  /\ pc = "cell"
  /\ Segmented(segmentUnits(extractUnit(cell, SheetName, SourceRow, SourceCol,
                                        config.htmlEnabled, config.xliffVersion),
                            config))
  /\ UNCHANGED << pseudoVars, bookVars, config, cell, resegmented, xlf, edit, targetCell, findings, sheetVars, htmlVars >>

\* the unit as extracted, in an array
UnitsOf(u) == IF u.some THEN << u.v >> ELSE <<>>

\* segmentUnits called once more with the same configuration, on the units
\* the first call returned followed by the units as extracted: the text of
\* the cell is segmented twice in the one call, with the rules of the file
\* loaded once for both
Resegment ==
  /\ pc = "extracted"
  /\ resegmented' = SegmentEach(extracted \o UnitsOf(extractUnit(cell, SheetName, SourceRow, SourceCol,
                                                                 config.htmlEnabled, config.xliffVersion)),
                                config, SrxRulesOf(config), 1).units
  /\ pc' = "resegmented"
  /\ UNCHANGED << pseudoVars, bookVars, config, cell, extracted, units, xlf, edit, targetCell, findings, sheetVars, htmlVars >>

\* the options the callers export with: the target language of the export
\* command, and the source language of the end-to-end test
ExportOptionsUsed == { ExportOptions(Nothing, Some("fr")), ExportOptions(Some("en"), Nothing) }

\* exportUnitsToXliff
Export ==
  /\ pc = "extracted"
  /\ \E options \in ExportOptionsUsed : xlf' = Some(exportToXliff(units, config, options))
  /\ pc' = "exported"
  /\ UNCHANGED << pseudoVars, bookVars, config, cell, resegmented, extracted, units, edit, targetCell, findings, sheetVars, htmlVars >>

\* parseTranslated(xlf, 'xlf')
Parse ==
  /\ pc = "exported"
  /\ units' = parseXliffToUnits(xlf.v)
  /\ pc' = "parsed"
  /\ UNCHANGED << pseudoVars, bookVars, config, cell, resegmented, extracted, xlf, edit, targetCell, findings, sheetVars, htmlVars >>

\* what a translator does with a segment: copy the source, copy it without its
\* first marker, write it twice, leave an empty target, move the first
\* placeholder to the end, copy it and retype the source of the segment, put
\* it in brackets as the end-to-end test does, or write the word of the
\* merger tests
Edits == {"copy", "drop", "twice", "blank", "move", "retype", "bracket", "word"}

DropMarkerAt(text, p) ==
  IF p = -1 THEN text ELSE Slice(text, 0, p) \o SliceFrom(text, MarkAt(text, p))
DropFirstMarker(text) == DropMarkerAt(text, FirstFrom(MarkAt, text, 0))

MovePlaceholderAt(text, p) ==
  IF p = -1 THEN text
  ELSE Slice(text, 0, p) \o SliceFrom(text, ListedPlaceholderAt(text, p))
       \o " " \o Slice(text, p, ListedPlaceholderAt(text, p))
MoveFirstPlaceholder(text) == MovePlaceholderAt(text, FirstFrom(ListedPlaceholderAt, text, 0))

Edited(source, e) ==
  CASE e = "copy"  -> source
    [] e = "drop"  -> DropFirstMarker(source)
    [] e = "twice" -> source \o " " \o source
    [] e = "blank" -> ""
    [] e = "move"  -> MoveFirstPlaceholder(source)
    [] e = "retype" -> source
    [] e = "bracket" -> "[" \o source \o "]"
    [] e = "word" -> "Traduction"

\* the source of a segment as the translated file holds it: a retyped source
\* is not a part of the unit's source any more
SourceAfter(source, e) == IF e = "retype" THEN source \o "~" ELSE source

\* the translator fills the target of the segments in mask
Translate ==
  /\ pc \in {"extracted", "parsed"}
  /\ units # <<>>
  /\ \E e \in Edits, mask \in SUBSET (1..Len(units[1].segments)) :
       /\ edit' = Some([kind |-> e, mask |-> mask])
       /\ units' = [units EXCEPT ![1].segments =
                      [k \in DOMAIN units[1].segments |->
                         IF k \in mask
                         THEN [units[1].segments[k] EXCEPT
                                 !.target = Some(Edited(units[1].segments[k].source, e)),
                                 !.source = SourceAfter(units[1].segments[k].source, e)]
                         ELSE units[1].segments[k]]]
  /\ pc' = "translated"
  /\ UNCHANGED << pseudoVars, bookVars, config, cell, resegmented, extracted, xlf, targetCell, findings, sheetVars, htmlVars >>

\* the pseudo command and pseudoUnits: every segment gets the pseudo text of
\* its source as target
Pseudo ==
  /\ pc \in {"extracted", "parsed"}
  /\ units # <<>>
  /\ edit' = Some([kind |-> "pseudo", mask |-> DOMAIN units[1].segments])
  /\ units' = [units EXCEPT ![1] = pseudoUnits(units[1])]
  /\ placeholderRe' = ReAfterSegments(pseudoUnits(units[1]).segments, 1, placeholderRe)
  /\ pc' = "translated"
  /\ UNCHANGED << calls, bookVars, config, cell, resegmented, extracted, xlf, targetCell, findings, sheetVars, htmlVars >>

\* the validate command: validateUnit on the translated unit
Validate ==
  /\ pc = "translated"
  /\ findings' = Some(validateUnit(units[1], DefaultLengthFactor))
  /\ pc' = "validated"
  /\ UNCHANGED << pseudoVars, bookVars, config, cell, resegmented, extracted, units, xlf, edit, targetCell, sheetVars, htmlVars >>

\* merge of index.ts: the target cell gets the rebuilt text, unless it is empty
\* if (finalText) the target cell gets it; an empty text leaves the cell alone
CellAfter(old, finalText) == IF finalText # "" THEN Some(finalText) ELSE old

Merge ==
  /\ pc = "translated"
  /\ targetCell' = CellAfter(targetCell, MergedText(units[1], config.mergeFallback))
  /\ pc' = "merged"
  /\ UNCHANGED << pseudoVars, bookVars, config, cell, resegmented, extracted, units, xlf, edit, findings, sheetVars, htmlVars >>

\* extract of index.ts on the sheet: extractUnits, then segmentUnits
ExtractSheet ==
  /\ pc = "sheet"
  /\ listed' = Some(SegmentEach(extractUnits(sheet, sheetCfg, config), config, SrxRulesOf(config), 1).units)
  /\ pc' = IF SegmentEach(extractUnits(sheet, sheetCfg, config), config, SrxRulesOf(config), 1).failed
           THEN "failed" ELSE "streaming"
  /\ UNCHANGED << pseudoVars, bookVars, config, edit, cellVars, sheet, sheetCfg, stream, outSheet, htmlVars >>

\* the generator is done when it is not in the loop over sourceCols and no
\* row is left
StreamDone(st, ws) == st.next = 0 /\ st.rowIndex >= rowCount(ws)

\* extractStreamWorkbook reads the next row of the sheet and goes on to its
\* first yield or, without one, to the end of the row
StreamRow ==
  /\ pc = "streaming"
  /\ stream.next = 0
  /\ stream.rowIndex < rowCount(sheet)
  /\ stream' = StreamRowBody(sheet, sheetCfg, stream, stream.rowIndex + 1)
  /\ pc' = IF StreamDone(StreamRowBody(sheet, sheetCfg, stream, stream.rowIndex + 1), sheet)
           THEN "streamed" ELSE "streaming"
  /\ UNCHANGED << pseudoVars, bookVars, config, edit, cellVars, sheet, sheetCfg, listed, outSheet, htmlVars >>

\* the consumer asks for the next unit: the generator goes on after its
\* yield to the next yield of the row or to the end of the row
StreamResume ==
  /\ pc = "streaming"
  /\ stream.next # 0
  /\ stream' = StreamToYield(sheet, sheetCfg, stream, stream.rowIndex, stream.next)
  /\ pc' = IF StreamDone(StreamToYield(sheet, sheetCfg, stream, stream.rowIndex, stream.next), sheet)
           THEN "streamed" ELSE "streaming"
  /\ UNCHANGED << pseudoVars, bookVars, config, edit, cellVars, sheet, sheetCfg, listed, outSheet, htmlVars >>

\* the units of the sheet with the translator's edit in every segment
TranslatedUnits(unitList, e) ==
  [i \in DOMAIN unitList |->
     [unitList[i] EXCEPT !.segments =
        [k \in DOMAIN unitList[i].segments |->
           [unitList[i].segments[k] EXCEPT
              !.target = Some(Edited(unitList[i].segments[k].source, e))]]]]

\* the sheet written, or the failure of mergeWorkbook
SheetWritten(outcome) ==
  /\ outSheet' = IF outcome.failed THEN Nothing ELSE Some(outcome.ws)
  /\ pc' = IF outcome.failed THEN "rejected" ELSE "written"

\* merge of index.ts on the sheet, with the units of extractUnits translated
MergeSheet ==
  /\ pc = "streamed"
  /\ \E e \in {"twice", "blank", "word"} :
       /\ edit' = Some([kind |-> e, mask |-> {}])
       /\ SheetWritten(mergeWorkbook(sheet, sheetCfg, TranslatedUnits(listed.v, e), config))
  /\ UNCHANGED << pseudoVars, bookVars, config, cellVars, sheet, sheetCfg, listed, stream, htmlVars >>

\* htmlToSkeleton on the fragment of the cell
Skeletonize ==
  /\ pc = "html"
  /\ skeleton' = Some(htmlToSkeleton(cell.dom))
  /\ pc' = "skeleton"
  /\ UNCHANGED << pseudoVars, bookVars, config, edit, cellVars, sheetVars, composed >>

\* what a skeleton token gives in the text handed to the translator, and back:
\* a text slot its text as the translator left it, a marker itself, a literal
\* tag nothing
TranslatedToken(token, texts, e) ==
  IF token.type = "htmltxt" THEN Edited(texts[ParseInt(token.id)], e)
  ELSE IF token.type \in {"io", "ic"} THEN token.value
  ELSE ""

\* the translation of the texts of a skeleton, the markers in the order of
\* the skeleton
TranslationFrom(tokens, texts, e) ==
  Join([k \in DOMAIN tokens |-> TranslatedToken(tokens[k], texts, e)])
TranslationOf(sk, e) == TranslationFrom(tokenizeSkeleton(sk.skeleton), sk.texts, e)

\* what a translator does with the first io or ic marker of a translation:
\* keep it, delete it, write it twice, or move it to the end
MarkerEdits == {"keep", "drop", "dup", "move"}
EditMarkerAt(text, p, m) ==
  IF p = -1 \/ m = "keep" THEN text
  ELSE IF m = "drop" THEN Slice(text, 0, p) \o SliceFrom(text, TranslationTokenAt(text, p))
  ELSE IF m = "dup"
  THEN Slice(text, 0, TranslationTokenAt(text, p)) \o SliceFrom(text, p)
  ELSE Slice(text, 0, p) \o SliceFrom(text, TranslationTokenAt(text, p))
       \o Slice(text, p, TranslationTokenAt(text, p))
MarkersEdited(text, m) == EditMarkerAt(text, FirstFrom(TranslationTokenAt, text, 0), m)

\* composeHtmlFromSkeleton on the translation of the texts
Compose ==
  /\ pc = "skeleton"
  /\ \E e \in {"copy", "twice"}, m \in MarkerEdits :
       /\ edit' = Some([kind |-> e, mask |-> {}, markers |-> m])
       /\ composed' = Some(composeHtmlFromSkeleton(MarkersEdited(TranslationOf(skeleton.v, e), m),
                                                   skeleton.v.skeleton,
                                                   Some(skeleton.v.inlineMap)))
  /\ pc' = "composed"
  /\ UNCHANGED << pseudoVars, bookVars, config, cellVars, sheetVars, skeleton >>

\* extract of index.ts on the workbook
ExtractBook ==
  /\ pc = "book"
  /\ extracted' = extract(book.worksheets, book.sheets, config).units
  /\ units' = extract(book.worksheets, book.sheets, config).units
  /\ pc' = IF extract(book.worksheets, book.sheets, config).failed THEN "failed" ELSE "bookExtracted"
  /\ UNCHANGED << pseudoVars, bookVars, config, cell, resegmented, xlf, edit, targetCell, findings, sheetVars, htmlVars >>

\* exportUnitsToXliff on the units of the workbook
ExportBook ==
  /\ pc = "bookExtracted"
  /\ \E options \in ExportOptionsUsed :
       xlf' = Some(exportUnitsToXliff(units, book.sheets, config, options))
  /\ pc' = "bookExported"
  /\ UNCHANGED << pseudoVars, bookVars, config, cell, resegmented, extracted, units, edit, targetCell, findings,
                  sheetVars, htmlVars >>

\* merge of index.ts on the workbook, with the units translated
MergeBook ==
  /\ pc = "bookExported"
  /\ \E e \in {"copy", "twice"} :
       /\ edit' = Some([kind |-> e, mask |-> {}])
       /\ units' = TranslatedUnits(units, e)
       /\ outBook' = Some(merge(book.worksheets, book.sheets, TranslatedUnits(units, e), config))
       /\ pc' = IF merge(book.worksheets, book.sheets, TranslatedUnits(units, e), config).failed
                THEN "bookFailed" ELSE "bookMerged"
  /\ UNCHANGED << pseudoVars, book, config, cell, resegmented, extracted, xlf, targetCell, findings, sheetVars,
                  htmlVars >>

\* a call of pseudoTransform with the default options
PseudoTransform ==
  /\ pc = "pseudo"
  /\ Len(calls) < MaxCalls
  /\ \E text \in PseudoTexts :
       /\ calls' = Append(calls, [text |-> text, out |-> pseudoTransform(text, placeholderRe).out])
       /\ placeholderRe' = pseudoTransform(text, placeholderRe).re
  /\ UNCHANGED << bookVars, config, edit, cellVars, sheetVars, htmlVars, pc >>

Next ==
  \/ PseudoTransform
  \/ ExtractBook \/ ExportBook \/ MergeBook
  \/ Skeletonize \/ Compose
  \/ Extract \/ Resegment \/ Export \/ Parse \/ Translate \/ Pseudo \/ Validate \/ Merge
  \/ ExtractSheet \/ StreamRow \/ StreamResume \/ MergeSheet

Spec == Init /\ [][Next]_vars

(***************************************************************************)
(* The properties                                                          *)
(***************************************************************************)

\* the cell is plain text, or an HTML fragment
Plain == ~looksHtml(cell.value)
Html == looksHtml(cell.value)
\* the units went through an XLIFF document, or straight from extract to merge
ViaXliff == xlf.some
Direct == ~xlf.some
\* the translator copied every source to its target
AllCopied ==
  /\ edit.some /\ edit.v.kind = "copy"
  /\ units # <<>> /\ edit.v.mask = DOMAIN units[1].segments

\* the original opening tags of the inline elements of a tree
RECURSIVE InlineOpenTags(_)
InlineOpenTags(node) ==
  IF node.nodeType = 3 THEN {}
  ELSE (IF node.rawTagName \in defaultInline
        THEN { "<" \o node.rawTagName \o RawAttrsOf(node) \o ">" } ELSE {})
       \cup UNION { InlineOpenTags(node.childNodes[k]) : k \in DOMAIN node.childNodes }

\* C1 (as stated): an HTML cell extracted with a skeleton, exported, parsed
\* with every target a copy of its source and merged, gets back exactly the
\* fragment it held
C1_RoundTripIdentity ==
  (pc = "merged" /\ Html /\ cell # UnclosedDiv /\ ViaXliff /\ AllCopied
   /\ units[1].meta.htmlSkeleton.some)
    => targetCell = Some(cell.value)

\* the effective text of a segment: its target when it has one that is not
\* empty, else its source, or nothing when global.mergeFallback is 'empty'
Effective(seg) ==
  IF seg.target.some /\ seg.target.v # "" THEN seg.target.v
  ELSE IF config.mergeFallback = Some("empty") THEN ""
  ELSE seg.source

\* where the text of a segment lies in the source of its unit, by the offsets
\* the segmenter gave it
SegFrom(src, seg) ==
  Min({ q \in seg.start.v..(seg.end.v - Len(seg.source)) :
         Slice(src, q, q + Len(seg.source)) = seg.source })
SegTo(src, seg) == SegFrom(src, seg) + Len(seg.source)

\* the source text between segment k and the one before it (before the first
\* segment: from the start of the source)
BetweenSegs(tu, k) ==
  Slice(tu.source,
        IF k = 1 THEN 0 ELSE SegTo(tu.source, tu.segments[k - 1]),
        SegFrom(tu.source, tu.segments[k]))

\* that text, or a single space when two segments touch
BetweenOrSpace(tu, k) ==
  IF BetweenSegs(tu, k) # "" THEN BetweenSegs(tu, k)
  ELSE IF k > 1 THEN " " ELSE ""

\* the text after the last segment
AfterSegs(tu) == SliceFrom(tu.source, SegTo(tu.source, tu.segments[Len(tu.segments)]))

\* the merged text with the gaps Gap gives
TextWithGaps(tu, Gap(_, _)) ==
  Join([k \in DOMAIN tu.segments |-> Gap(tu, k) \o Effective(tu.segments[k])])
  \o AfterSegs(tu)

\* the segments of the unit have the sources the segmenter gave them
SourcesKept ==
  \A k \in DOMAIN units[1].segments :
    units[1].segments[k].source = extracted[1].segments[k].source

\* a plain unit merged straight after segmentation
SegmentedPlainMerge ==
  /\ pc = "merged" /\ Plain /\ Direct /\ config.segmentation /\ SourcesKept
  /\ config.mergeFallback # Some("empty")
  /\ \A k \in DOMAIN units[1].segments : units[1].segments[k].start.some

\* C2 (amended): in the merge of a plain unit segmented from its source, the
\* text between the effective texts of two consecutive segments is the source
\* text that lay between them when there is some, and a single space when the
\* two segments touched; the text before the first and after the last segment
\* is copied verbatim, whichever segments carry a target
C2_GapRestoredOrSpace ==
  SegmentedPlainMerge => targetCell = Some(TextWithGaps(units[1], BetweenOrSpace))

\* C2 (as stated): the text between two consecutive segments is exactly the
\* source text that lay between them
C2_GapIsSourceText ==
  SegmentedPlainMerge => targetCell = Some(TextWithGaps(units[1], BetweenSegs))

\* C2 witness: the merge of "a.B ", whose two segments touch, with a target on
\* the second segment only
C2_TouchingSegmentsMerged ==
  /\ SegmentedPlainMerge
  /\ cell.value = "a.B "
  /\ edit.v.kind = "twice" /\ edit.v.mask = {2}
  /\ targetCell = Some("a. B B ")

\* C3 (as stated): the units parsed from the exported document have the unit
\* ids, segment ids and segment sources of the exported units, and each unit
\* source is the original source, whitespace between segments included
C3_InterchangeLossless ==
  (pc = "parsed" /\ Plain /\ config.inlineCodeRegexes = <<>> /\ extracted # <<>>)
    => /\ Len(units) = Len(extracted)
       /\ units[1].id = extracted[1].id
       /\ [k \in DOMAIN units[1].segments |-> units[1].segments[k].id]
            = [k \in DOMAIN extracted[1].segments |-> extracted[1].segments[k].id]
       /\ [k \in DOMAIN units[1].segments |-> units[1].segments[k].source]
            = [k \in DOMAIN extracted[1].segments |-> extracted[1].segments[k].source]
       /\ units[1].source = extracted[1].source

\* C4 (as stated): with version 2.1 the source parsed from the exported
\* document holds, character for character, the original opening tag of
\* every inline element of the fragment
C4_OpeningTagsRebuilt ==
  (pc = "parsed" /\ Html /\ config.xliffVersion = "2.1" /\ units # <<>>)
    => \A t \in InlineOpenTags(cell.dom) : Includes(units[1].source, t)

\* C5 (as stated): with version 1.2 the merged cell holds the original
\* opening tag, attributes included, of every inline element recorded in the
\* side map of the unit
C5_SideMapRestoresTags ==
  (pc = "merged" /\ Html /\ config.xliffVersion = "1.2" /\ ViaXliff
   /\ units[1].meta.htmlInlineMap.some /\ targetCell.some)
    => \A t \in InlineOpenTags(cell.dom) : Includes(targetCell.v, t)

\* the sum of a sequence of numbers
RECURSIVE SumOf(_)
SumOf(ns) == IF ns = <<>> THEN 0 ELSE Head(ns) + SumOf(Tail(ns))

\* the number of inline elements in a tree
RECURSIVE InlineCount(_)
InlineCount(node) ==
  IF node.nodeType = 3 THEN 0
  ELSE (IF node.rawTagName \in defaultInline THEN 1 ELSE 0)
       + SumOf([k \in DOMAIN node.childNodes |-> InlineCount(node.childNodes[k])])

\* A nesting: texts, and elements with their name, their id and the nesting
\* inside them
NestText(t) == [kind |-> "text", text |-> t, name |-> "", id |-> "", inside |-> <<>>]
NestEle(name, id, inside) ==
  [kind |-> "ele", text |-> "", name |-> name, id |-> id, inside |-> inside]

\* texts that follow one another are one text
RECURSIVE MergeTexts(_)
MergeTexts(ns) ==
  IF Len(ns) < 2 THEN ns
  ELSE IF ns[1].kind = "text" /\ ns[2].kind = "text"
  THEN MergeTexts(<< NestText(ns[1].text \o ns[2].text) >> \o SubSeq(ns, 3, Len(ns)))
  ELSE << ns[1] >> \o MergeTexts(Tail(ns))

\* The nesting of the inline elements of a fragment, as the children of
\* <source> should show it: every inline element is an element called name
\* whose id is its number in document order and which holds what the inline
\* element held; block elements leave their content in place.  n inline
\* elements precede the node.
RECURSIVE NestingOf(_, _, _), NestingOfAll(_, _, _)
NestingOf(node, name, n) ==
  IF node.nodeType = 3 THEN << NestText(node.rawText) >>
  ELSE IF node.rawTagName \in defaultInline
  THEN << NestEle(name, Digits(n + 1), NestingOfAll(node.childNodes, name, n + 1)) >>
  ELSE NestingOfAll(node.childNodes, name, n)
NestingOfAll(nodes, name, n) ==
  IF nodes = <<>> THEN <<>>
  ELSE MergeTexts(NestingOf(Head(nodes), name, n)
                  \o NestingOfAll(Tail(nodes), name, n + InlineCount(Head(nodes))))

\* the nesting of the nodes of an XLIFF document
RECURSIVE XNesting(_)
XNesting(xnodes) ==
  [k \in DOMAIN xnodes |->
     IF xnodes[k].kind = "text" THEN NestText(xnodes[k].text)
     ELSE NestEle(xnodes[k].name, AttrOr(xnodes[k], "id"), XNesting(xnodes[k].children))]

\* the children of the <source> of the first segment of the first unit
FirstNamed(nodes, name) == ChildrenNamed(nodes, name)[1]
SourceNodes(doc) ==
  FirstNamed(FirstNamed(FirstNamed(FirstNamed(doc.children, "file").children,
                                   "unit").children,
                        "segment").children,
             "source").children

\* the inline content of a fragment as HTML, the inline tags with their
\* attributes or without them
RECURSIVE InlineHtml(_, _)
InlineHtml(node, withAttrs) ==
  IF node.nodeType = 3 THEN node.rawText
  ELSE IF node.rawTagName \in defaultInline
  THEN "<" \o node.rawTagName \o (IF withAttrs THEN RawAttrsOf(node) ELSE "") \o ">"
       \o Join([k \in DOMAIN node.childNodes |-> InlineHtml(node.childNodes[k], withAttrs)])
       \o "</" \o node.rawTagName \o ">"
  ELSE Join([k \in DOMAIN node.childNodes |-> InlineHtml(node.childNodes[k], withAttrs)])

\* an HTML unit exported as one segment
OneSegmentHtml == Html /\ extracted # <<>> /\ Len(extracted[1].segments) = 1

\* C6: the inline elements of a fragment, nested to any depth and also inside
\* an element of the same name, are written under <source> with the nesting
\* they have in the fragment, every inner element inside its outer element;
\* reading the document back gives the inline HTML with the same nesting
\* (with the attributes for version 2.1, for tags without entities; without
\* them for version 1.2)
C6_NestingIntegrity ==
  /\ (pc = "exported" /\ OneSegmentHtml)
       => XNesting(SourceNodes(xlf.v))
            = NestingOfAll(<< cell.dom >>, IF config.xliffVersion = "2.1" THEN "pc" ELSE "g", 0)
  /\ (pc = "parsed" /\ OneSegmentHtml
      /\ (config.xliffVersion = "2.1" => ~Includes(cell.value, "&")))
       => units[1].segments[1].source = InlineHtml(cell.dom, config.xliffVersion = "2.1")

\* C6 witness: the fragment with <b> inside <b> inside <b>, followed by
\* another <b>, exported
C6_SameNameNestingExported ==
  /\ pc = "exported" /\ OneSegmentHtml /\ config.xliffVersion = "2.1"
  /\ cell.value = "<p><b>x <b><b>y</b></b> z</b><b>w</b></p>"
  /\ XNesting(SourceNodes(xlf.v))
       = << NestEle("pc", "1", << NestText("x "),
                                  NestEle("pc", "2", << NestEle("pc", "3", << NestText("y") >>) >>),
                                  NestText(" z") >>),
            NestEle("pc", "4", << NestText("w") >>) >>

\* C7 (as stated): "<div>Unclosed div" extracted, exported, parsed and merged
\* with every target equal to its source gives back the original string
C7_UnclosedDivRestored ==
  (pc = "merged" /\ cell = UnclosedDiv /\ AllCopied)
    => targetCell = Some("<div>Unclosed div")

IcuMessage == "{count, plural, one {1 file} other {# files}}"

\* the literals {digits} of s from p on, from left to right, and its
\* literals %s
RECURSIVE BracedLiterals(_, _), PercentLiterals(_, _)
BracedLiterals(s, p) ==
  LET q == FirstFrom(BracedNumberAt, s, p)
  IN IF q = -1 THEN <<>>
     ELSE << Slice(s, q, BracedNumberAt(s, q)) >> \o BracedLiterals(s, BracedNumberAt(s, q))
PercentLiterals(s, p) ==
  LET q == IndexOf(s, "%s", p)
  IN IF q = -1 THEN <<>> ELSE << "%s" >> \o PercentLiterals(s, q + 2)

\* the literals the inline code patterns mask in s, in the order of their
\* tokens ph1, ph2, ...
MaskedLiterals(s) == BracedLiterals(s, 0) \o PercentLiterals(s, 0)

\* the end of the token [[ph:phN]] at p of s, or -1, and its number N
PhTokenEnd(s, p) ==
  IF StartsWithAt(s, "[[ph:ph", p) /\ RunLen(s, p + 7, Digit) > 0
     /\ StartsWithAt(s, "]]", p + 7 + RunLen(s, p + 7, Digit))
  THEN p + 7 + RunLen(s, p + 7, Digit) + 2 ELSE -1
PhTokenNumber(s, p) == ParseInt(Slice(s, p + 7, p + 7 + RunLen(s, p + 7, Digit)))

\* s from p on with every token [[ph:phN]] read as the N-th literal of lits,
\* in one pass from left to right
RECURSIVE Substituted(_, _, _)
Substituted(s, p, lits) ==
  LET q == MinOrNone({ i \in p..(Len(s) - 1) :
                         PhTokenEnd(s, i) # -1 /\ PhTokenNumber(s, i) \in DOMAIN lits })
  IN IF q = -1 THEN SliceFrom(s, p)
     ELSE Slice(s, p, q) \o lits[PhTokenNumber(s, q)] \o Substituted(s, PhTokenEnd(s, q), lits)

\* the translated file holds a segment whose source was retyped
Retyped == edit.some /\ edit.v.kind = "retype" /\ edit.v.mask # {}

\* a plain unit with inline codes merged after the XLIFF round trip, the
\* sources of its segments being those of the exported document
CodesMerged ==
  /\ pc = "merged" /\ Plain /\ ViaXliff /\ ~Retyped
  /\ config.inlineCodeRegexes = InlineCodeRegexes

\* C8: in the merge of a unit that went through XLIFF with its inline codes
\* masked, the text of every segment is its effective text with each token
\* [[ph:id]] the translator kept replaced by the literal masked under that
\* id, once per occurrence; a token the translator deleted leaves nothing,
\* and no [[ph:id]] token is left in the merged text (the segments of a
\* parsed unit follow one another with a single space between them)
C8_PlaceholderConservation ==
  CodesMerged
    => /\ Len(units[1].segments) = Len(extracted[1].segments)
       /\ targetCell
            = Some(Join([k \in DOMAIN units[1].segments |->
                           (IF k > 1 THEN " " ELSE "")
                           \o Substituted(Effective(units[1].segments[k]), 0,
                                          MaskedLiterals(extracted[1].segments[k].source))]))
       /\ ~Includes(targetCell.v, "[[ph:")

\* C8 witness: "{0} and {0}" merged after the translator deleted the first
\* token and kept the second
C8_TokenDeletedTokenKept ==
  /\ CodesMerged
  /\ cell.value = "{0} and {0}"
  /\ edit.v.kind = "drop" /\ edit.v.mask = {1}
  /\ Includes(units[1].segments[1].source, "[[ph:ph1]]")
  /\ ~Includes(units[1].segments[1].target.v, "[[ph:ph1]]")
  /\ Includes(units[1].segments[1].target.v, "[[ph:ph2]]")
  /\ Includes(targetCell.v, "{0}")
  /\ ~Includes(targetCell.v, "{0} and {0}")

\* C9 (as stated): the ICU message exported, parsed and merged unedited still
\* holds the keywords plural, one and other and both leaves with their braces
C9_IcuPreserved ==
  (pc = "merged" /\ cell.value = IcuMessage /\ ViaXliff /\ AllCopied)
    => /\ targetCell.some
       /\ \A w \in {"plural", "one", "other", "{1 file}", "{# files}"} :
            Includes(targetCell.v, w)

\* C10: segmentUnits with the built-in rules gives "Hello world. How are you?"
\* exactly the segments "Hello world." and "How are you?", and a second call
\* that segments the text of the cell twice more, once in the unit the first
\* call returned and once in the unit as extracted, with the same locale and
\* the same rule set, gives both times the ids, sources and offsets of the first
C10_SegmentationDeterminism ==
  /\ (pc \in {"extracted", "resegmented"} /\ Plain /\ config.segmentation /\ extracted # <<>>
        /\ cell.value = "Hello world. How are you?" /\ ~config.srx.some)
       => [k \in DOMAIN extracted[1].segments |-> extracted[1].segments[k].source]
            = << "Hello world.", "How are you?" >>
  /\ pc = "resegmented" => resegmented = extracted \o extracted

\* C10 witness: "Hello world. How are you?" segmented in two by the first call
\* and twice more by the second
C10_HelloWorldSegmented ==
  /\ pc = "resegmented" /\ config.segmentation /\ ~config.srx.some
  /\ cell.value = "Hello world. How are you?"
  /\ Len(extracted[1].segments) = 2
  /\ extracted[1].segments[2].source = "How are you?"
  /\ Len(resegmented) = 2
  /\ Len(resegmented[2].segments) = 2
  /\ resegmented[2].segments[2].source = "How are you?"
  /\ resegmented[2].segments[2].start = Some(13)

\* the segments the segmenter gave the plain cell of the run
SegmentedPlain ==
  pc = "extracted" /\ Plain /\ config.segmentation /\ extracted # <<>>

\* C11 (as stated): the text of the unit at the span [start, end) of a segment
\* is exactly the trimmed source of the segment, and the spans of consecutive
\* segments are in increasing order and do not overlap
C11_SpanIsTrimmedSource ==
  SegmentedPlain =>
    \A k \in DOMAIN extracted[1].segments :
      /\ extracted[1].segments[k].start.some /\ extracted[1].segments[k].end.some
      /\ Slice(extracted[1].source, extracted[1].segments[k].start.v,
               extracted[1].segments[k].end.v) = extracted[1].segments[k].source
      /\ k > 1 => extracted[1].segments[k - 1].end.v <= extracted[1].segments[k].start.v

\* the boundaries of the unit text where a segment ends and another follows
BreaksOf(tu) == { tu.segments[k].end.v : k \in 1..(Len(tu.segments) - 1) }

\* C13 (as stated): with the built-in rules no break directly follows one of
\* the listed abbreviations, and "Dr. Smith went home." stays one segment
C13_NoBreakAfterAbbreviation ==
  (SegmentedPlain /\ ~config.srx.some) =>
    /\ \A b \in BreaksOf(extracted[1]) :
         ~RegExpTest(NewRegExp("abbrev", FALSE), Slice(extracted[1].source, 0, b)).found
    /\ cell.value = "Dr. Smith went home." => Len(extracted[1].segments) = 1

\* what the target cell holds after the merge of a text: the text, or nothing
\* when the text is empty
Written(text) == IF text # "" THEN Some(text) ELSE Nothing

\* a plain unit without inline codes merged straight after extraction
PlainMerge ==
  pc = "merged" /\ Plain /\ Direct /\ config.inlineCodeRegexes = <<>> /\ SourcesKept

\* C12: the merged text of a plain unit is made of the effective texts of its
\* segments, the effective text being the target when there is one that is not
\* empty, else the source when global.mergeFallback is 'source' or not set,
\* else the empty string
C12_MergeFallbackPolicy ==
  PlainMerge =>
    targetCell = Written(IF config.segmentation
                         THEN TextWithGaps(units[1], BetweenOrSpace)
                         ELSE Effective(units[1].segments[1]))

\* C12 witness: under 'empty' only the translated second sentence is merged;
\* the first, without a target, gives nothing
C12_UntranslatedLeftEmpty ==
  /\ pc = "merged" /\ config.mergeFallback = Some("empty") /\ config.segmentation
  /\ cell.value = "Hello world. How are you?"
  /\ edit.v.kind = "copy" /\ edit.v.mask = {2}
  /\ targetCell = Some(" How are you?")

\* the language maps of an SRX file whose pattern matches the locale
MatchingMaps(file, locale) ==
  { k \in DOMAIN file.languagemaps :
      /\ file.languagemaps[k].languagepattern \notin Uncompilable
      /\ LanguagePatternTest(file.languagemaps[k].languagepattern, locale) }

\* the rules the file defines under a name, compiled; none when it defines
\* no rule set of that name
RulesNamed(file, name) ==
  IF \E k \in DOMAIN file.languagerules : file.languagerules[k].name = name
  THEN CompileRules(file.languagerules[
         CHOOSE k \in DOMAIN file.languagerules : file.languagerules[k].name = name].rule)
  ELSE <<>>

\* the rule set named by the first language map that matches the locale, or
\* the built-in rules when the file cannot be loaded, no map matches, or the
\* rule set is missing or empty
ResolvedRules(file, locale) ==
  IF ~file.readable \/ MatchingMaps(file, locale) = {} THEN builtinRulesFor(locale)
  ELSE IF RulesNamed(file, file.languagemaps[Min(MatchingMaps(file, locale))].languagerulename)
            = <<>>
  THEN builtinRulesFor(locale)
  ELSE RulesNamed(file, file.languagemaps[Min(MatchingMaps(file, locale))].languagerulename)

\* the cell was extracted with an SRX file configured
SrxExtraction == pc \in {"extracted", "failed"} /\ config.segmentation /\ config.srx.some

\* C14 (as stated): segmentUnits never fails, and segments the unit with the
\* rule set named by the first language map matching its locale, or with the
\* built-in rules when there is no such rule set
C14_LocaleRuleResolution ==
  SrxExtraction =>
    /\ pc = "extracted"
    /\ [k \in DOMAIN extracted[1].segments |->
          [source |-> extracted[1].segments[k].source,
           start |-> extracted[1].segments[k].start,
           end |-> extracted[1].segments[k].end]]
         = [k \in DOMAIN segmentTextByRules(cell.value,
                           ResolvedRules(config.srx.v, getLocaleForUnit(config))) |->
              [source |-> segmentTextByRules(cell.value,
                            ResolvedRules(config.srx.v, getLocaleForUnit(config)))[k].source,
               start |-> segmentTextByRules(cell.value,
                            ResolvedRules(config.srx.v, getLocaleForUnit(config)))[k].start,
               end |-> segmentTextByRules(cell.value,
                            ResolvedRules(config.srx.v, getLocaleForUnit(config)))[k].end]]

\* what a part of the split of a text becomes when placeholders are kept: the
\* parts at the even places are the placeholders, those at the odd places the
\* texts between them
KeptPart(parts, i) ==
  IF i % 2 = 0 THEN parts[i]
  ELSE IF parts[i] = "" THEN ""
  ELSE Expanded(parts[i])

\* the pseudo text of a text with every placeholder left as it is
PlaceholdersKept(text) ==
  WrapLeft
  \o Join([i \in DOMAIN SplitPlaceholders(text) |-> KeptPart(SplitPlaceholders(text), i)])
  \o WrapRight

\* the units were pseudo-translated
PseudoTranslated == pc = "translated" /\ edit.v.kind = "pseudo"

\* C17 (as stated): in the pseudo text of every segment each placeholder of
\* the source ({n}, %s, [[ph:id]]) stands unchanged and in its place, without
\* substituted characters and without filler, the texts between the
\* placeholders being mapped and expanded
C17_PlaceholdersPreserved ==
  PseudoTranslated =>
    \A k \in DOMAIN units[1].segments :
      units[1].segments[k].target = Some(PlaceholdersKept(units[1].segments[k].source))

\* the multiset of the elements of a sequence
BagOfSeq(seq) ==
  [x \in { seq[i] : i \in DOMAIN seq } |-> Cardinality({ i \in DOMAIN seq : seq[i] = x })]

\* the multiset of the placeholder tokens ({n} and [[ph:id]]) of a text
PlaceholderBag(text) == BagOfSeq(PlaceholdersInOrder(text))

\* the 'Placeholder mismatch' findings reported for a segment
MismatchesFor(seg) ==
  { i \in DOMAIN findings.v :
      findings.v[i].check = "Placeholder mismatch" /\ findings.v[i].segment = seg.id }

\* validateUnit returned its findings
Validated == pc = "validated" /\ findings.some

\* C18: validateUnit returns, and its findings hold a 'Placeholder mismatch'
\* error for a segment exactly when the multiset of placeholder tokens of the
\* source of the segment differs from that of its target (no target being an
\* empty one); the finding is an error and there is one at most
C18_PlaceholderMismatchExact ==
  /\ pc = "validated" => findings.some
  /\ Validated =>
       \A k \in DOMAIN units[1].segments :
         /\ (MismatchesFor(units[1].segments[k]) # {})
              <=> (PlaceholderBag(units[1].segments[k].source)
                     # PlaceholderBag(TargetOrEmpty(units[1].segments[k])))
         /\ Cardinality(MismatchesFor(units[1].segments[k])) <= 1
         /\ \A i \in MismatchesFor(units[1].segments[k]) : findings.v[i].level = "error"

\* C18 witness: a target that holds the placeholders of its source in another
\* order gets no finding, while the unit holds at least two placeholders
C18_ReorderedPlaceholdersAccepted ==
  /\ Validated
  /\ Len(PlaceholdersInOrder(units[1].segments[1].source)) >= 2
  /\ units[1].segments[1].target.some
  /\ PlaceholdersInOrder(units[1].segments[1].target.v)
       # PlaceholdersInOrder(units[1].segments[1].source)
  /\ PlaceholderBag(units[1].segments[1].target.v)
       = PlaceholderBag(units[1].segments[1].source)
  /\ MismatchesFor(units[1].segments[1]) = {}

\* C18 witness: a target that lost a placeholder of its source gets the finding
C18_DroppedPlaceholderReported ==
  /\ Validated
  /\ edit.v.kind = "drop"
  /\ PlaceholdersInOrder(units[1].segments[1].source) # <<>>
  /\ MismatchesFor(units[1].segments[1]) # {}

\* both extraction paths have read the whole sheet
SheetExtracted == pc \in {"streamed", "written", "rejected"} /\ listed.some

\* the id the unit of a cell is to get
StableId(u) ==
  encodeURIComponent(u.sheetName) \o "::R" \o Digits(u.row) \o "C" \o toUpperCase(u.col)

\* C15 (as stated): the units of extractUnits and those of
\* extractStreamWorkbook get the id encodeURIComponent(sheetName) + "::R" +
\* row + "C" + upper-case column letter, and the two paths give the unit of
\* the same cell the same id
C15_StableUnitIds ==
  SheetExtracted =>
    /\ \A i \in DOMAIN listed.v : listed.v[i].id = StableId(listed.v[i])
    /\ \A j \in DOMAIN stream.units : stream.units[j].id = StableId(stream.units[j])
    /\ \A i \in DOMAIN listed.v : \A j \in DOMAIN stream.units :
         (listed.v[i].row = stream.units[j].row /\ listed.v[i].col = stream.units[j].col)
           => listed.v[i].id = stream.units[j].id

\* the unit carries the header text of its column, when a header row is
\* configured and its cell is not empty, and the text of every configured
\* metadata row that is not empty in its column
CarriesContext(u) ==
  /\ HeaderText(sheet, sheetCfg, colLetterToIndex(u.col)) # ""
       => u.meta.headerName = Some(HeaderText(sheet, sheetCfg, colLetterToIndex(u.col)))
  /\ \A mr \in Range(sheetCfg.metadataRows) :
       CellText(sheet, mr, colLetterToIndex(u.col)) # ""
         => /\ mr \in DOMAIN u.meta.metadataRows
            /\ u.meta.metadataRows[mr] = CellText(sheet, mr, colLetterToIndex(u.col))

\* C19 (as stated): every unit of extractUnits and every unit of
\* extractStreamWorkbook carries meta.headerName and the value of every
\* configured metadata row that is not empty in its column, the rows being
\* hidden or not, above or below the row of the unit
C19_HeaderAndMetadataContext ==
  SheetExtracted =>
    /\ \A i \in DOMAIN listed.v : CarriesContext(listed.v[i])
    /\ \A j \in DOMAIN stream.units : CarriesContext(stream.units[j])

\* the part of C19 on extractUnits alone
ListedCarryContext ==
  SheetExtracted => \A i \in DOMAIN listed.v : CarriesContext(listed.v[i])

\* the sheet with the columns of a set taken out
WithoutColumns(ws, cols) ==
  [r \in DOMAIN ws.rows |->
     SelectSeq([c \in DOMAIN ws.rows[r].cells |-> << c, ws.rows[r].cells[c] >>],
               LAMBDA e : e[1] \notin cols)]

\* the values of a sheet by row, each row ending at its last value
RECURSIVE DropTrailingEmpty(_)
DropTrailingEmpty(cells) ==
  IF cells # <<>> /\ cells[Len(cells)] = "" THEN DropTrailingEmpty(SubSeq(cells, 1, Len(cells) - 1))
  ELSE cells
ValuesOf(rowCells) == [r \in DOMAIN rowCells |-> DropTrailingEmpty(rowCells[r])]

\* the columns of a sheet in which no cell has a value
EmptyColumns(ws) ==
  { c \in 1..columnCount(ws) : \A r \in DOMAIN ws.rows : CellText(ws, r, c) = "" }

\* out is the sheet in with some columns without values inserted
OnlyColumnsInserted(in, out) ==
  \E cols \in SUBSET EmptyColumns(out) :
    ValuesOf([r \in DOMAIN out.rows |->
                [k \in DOMAIN WithoutColumns(out, cols)[r] |-> WithoutColumns(out, cols)[r][k][2]]])
      = ValuesOf([r \in DOMAIN in.rows |-> in.rows[r].cells])

\* C16: with global.overwrite false mergeWorkbook sets and changes no cell
\* value: the sheet written holds the values of the input sheet, each in its
\* row and in the order of the columns, with nothing but columns without
\* values inserted, and the rows are as hidden as they were
C16_NoOverwriteWritesNothing ==
  (pc = "written" /\ config.overwrite = Some(FALSE)) =>
    /\ outSheet.some
    /\ outSheet.v.name = sheet.name
    /\ DOMAIN outSheet.v.rows = DOMAIN sheet.rows
    /\ \A r \in DOMAIN sheet.rows : outSheet.v.rows[r].hidden = sheet.rows[r].hidden
    /\ OnlyColumnsInserted(sheet, outSheet.v)

\* C16 witness: the book of the merge options test merged with overwrite
\* false and translated units; the new column B is empty in row 2 and the
\* value of C2 is in D2
C16_TargetColumnLeftEmpty ==
  /\ pc = "written" /\ config.overwrite = Some(FALSE)
  /\ edit.v.kind = "twice"
  /\ sheet.rows = OptionsRows /\ sheetCfg = OptionsCfg
  /\ PlacementOf(config) = "insertAfterSource"
  /\ outSheet.v.rows[2].cells = << "Source", "", "", "Existing" >>

\* what a skeleton token is to give in the composed HTML: a literal tag or
\* text itself, a marker the literal of the inline map, a text slot the
\* translation of the text of its own text node
ComposedToken(token, sk, e) ==
  IF token.type \in {"tag", "text"} THEN token.value
  ELSE IF token.type = "io" THEN sk.inlineMap[ParseInt(token.id)].open
  ELSE IF token.type = "ic" THEN sk.inlineMap[ParseInt(token.id)].close
  ELSE Edited(sk.texts[ParseInt(token.id)], e)

ComposedFrom(tokens, sk, e) == Join([k \in DOMAIN tokens |-> ComposedToken(tokens[k], sk, e)])

\* C20 (as stated): for a skeleton and inline map of htmlToSkeleton and a
\* translation with the markers in the order of the skeleton, the composed
\* HTML is the skeleton with its literal tags unchanged, each io/ic marker
\* replaced by the open/close literal of its id, and each htmltxt slot filled
\* with the translation of the text of its own text node
C20_SkeletonSubstitution ==
  (pc = "composed" /\ edit.v.markers = "keep") =>
    composed = Some(ComposedFrom(tokenizeSkeleton(skeleton.v.skeleton), skeleton.v, edit.v.kind))

\* segmentUnits returned the units of the cell
SegmentsReturned == pc = "extracted" /\ extracted # <<>>

\* the sources of the segments of a unit
SourcesOf(tu) == [k \in DOMAIN tu.segments |-> tu.segments[k].source]

\* C21: segmentUnits returns one segment or more for every unit, whether its
\* source is empty, only whitespace or not; no segment of several holds only
\* whitespace, and a unit none of whose slices holds more than whitespace
\* has its whole source as its single segment
C21_AtLeastOneSegment ==
  SegmentsReturned =>
    /\ Len(extracted[1].segments) >= 1
    /\ Len(extracted[1].segments) > 1
         => \A k \in DOMAIN extracted[1].segments : Trim(extracted[1].segments[k].source) # ""
    /\ (\E k \in DOMAIN extracted[1].segments : Trim(extracted[1].segments[k].source) = "")
         => SourcesOf(extracted[1]) = << extracted[1].source >>
    /\ Trim(extracted[1].source) = "" => SourcesOf(extracted[1]) = << extracted[1].source >>

\* C21 witness: a cell of two spaces segmented with the built-in rules; its
\* one slice is dropped and the whole text is the single segment
C21_WhitespaceKeptWhole ==
  /\ SegmentsReturned /\ config.segmentation /\ ~config.srx.some
  /\ cell.value = "  "
  /\ SourcesOf(extracted[1]) = << "  " >>
  /\ extracted[1].segments[1].start = Some(0) /\ extracted[1].segments[1].end = Some(2)

\* a unit with an empty source gets one empty segment
C21_EmptySourceOneSegment ==
  /\ SegmentsReturned /\ config.segmentation
  /\ extracted[1].source = ""
  /\ SourcesOf(extracted[1]) = << "" >>

\* a whitespace slice between two sentences is dropped
C21_WhitespaceSliceDropped ==
  /\ SegmentsReturned /\ config.srx.some
  /\ cell.value = "A. B. C."
  /\ SourcesOf(extracted[1]) = << "A", ".", "B", ".", "C", "." >>

\* what encodePlaceholders gave at export for segment k of the unit
EncodedOf(k) ==
  encodePlaceholders(extracted[1].segments[k].source, regexesForUnit(config.inlineCodeRegexes))

\* where a marker [[ph:...]] or [[pc:...]] opens in a text
MarkerStarts(s) ==
  { p \in 0..(Len(s) - 1) : StartsWithAt(s, "[[ph:", p) \/ StartsWithAt(s, "[[pc:", p) }

\* every marker of the text closes, and no marker opens before it does
NoMarkerInMarker(s) ==
  \A p \in MarkerStarts(s) :
    /\ IndexOf(s, "]]", p) # -1
    /\ \A q \in MarkerStarts(s) : ~(p < q /\ q < IndexOf(s, "]]", p))

\* the unit was exported with inline code patterns configured
Encoded == pc = "exported" /\ Plain /\ config.inlineCodeRegexes # <<>> /\ extracted # <<>>

\* C22 (as stated): in the text encodePlaceholders returns for a segment no
\* marker lies in or cuts another marker, the marker of every token of the
\* map is whole in the text, the ids of the map differ from one another, and
\* the literal of every token is a substring of the segment's text
C22_TokensNeverNest ==
  Encoded =>
    \A k \in DOMAIN extracted[1].segments :
      /\ NoMarkerInMarker(EncodedOf(k).encoded)
      /\ \A i \in DOMAIN EncodedOf(k).map :
           /\ Includes(EncodedOf(k).encoded, "[[ph:" \o EncodedOf(k).map[i].id \o "]]")
           /\ Includes(extracted[1].segments[k].source, EncodedOf(k).map[i].original)
           /\ \A j \in DOMAIN EncodedOf(k).map :
                EncodedOf(k).map[i].id = EncodedOf(k).map[j].id => i = j

\* the children of the <source> of segment k of the first unit of a document
SourceNodesOf(doc, k) ==
  FirstNamed(ChildrenNamed(FirstNamed(FirstNamed(doc.children, "file").children,
                                      "unit").children,
                           "segment")[k].children,
             "source").children

\* where the open tags of inline elements that are not self-closing start in
\* a text, and the name of the one at p
OpenMarkers(s) ==
  { p \in 0..(Len(s) - 1) :
      /\ TagAt(s, p) # -1
      /\ ~EndsWithSlash(Trim(AttrsStr(s, p, InlineNameAt(s, p, Whitespace \cup {">"}),
                                      TagAt(s, p)))) }
MarkerName(s, p) == InlineNameAt(s, p, Whitespace \cup {">"})

\* the open and the close tags of a name between two positions
OpensIn(s, name, from, to) == { q \in from..(to - 1) : StartsWithAt(s, "<" \o name, q) }
ClosesIn(s, name, from, to) ==
  { q \in from..(to - 1) : StartsWithAt(s, "</" \o name \o ">", q) }

\* the close tags that match the open marker at p: those with as many open
\* as close tags of the name between the marker and them
MatchingCloses(s, p) ==
  { c \in ClosesIn(s, MarkerName(s, p), TagAt(s, p), Len(s)) :
      Cardinality(OpensIn(s, MarkerName(s, p), TagAt(s, p), c))
        = Cardinality(ClosesIn(s, MarkerName(s, p), TagAt(s, p), c)) }

\* p lies in an element that is closed
InClosedElement(s, p) ==
  \E q \in OpenMarkers(s) :
    q < p /\ MatchingCloses(s, q) # {} /\ p < Min(MatchingCloses(s, q))

\* the first open marker of a text without a matching close, or -1
FirstUnterminated(s) ==
  MinOrNone({ p \in OpenMarkers(s) : MatchingCloses(s, p) = {} /\ ~InClosedElement(s, p) })

EndsWith(t, x) == Len(t) >= Len(x) /\ SliceFrom(t, Len(t) - Len(x)) = x

\* the last of the nodes is a text node that ends with the literal
LastIsLiteral(nodes, literal) ==
  /\ nodes # <<>>
  /\ nodes[Len(nodes)].kind = "text"
  /\ EndsWith(nodes[Len(nodes)].text, literal)

\* C23: the export of extracted units always gives a document, and for a
\* segment whose text holds an open inline marker without a matching close
\* the text from the first such marker to the end is written under <source>
\* as literal text
C23_UnterminatedMarkerLiteral ==
  /\ pc = "exported" => xlf.some
  /\ (pc = "exported" /\ extracted # <<>>) =>
       \A k \in DOMAIN extracted[1].segments :
         FirstUnterminated(EncodedOf(k).encoded) # -1
           => LastIsLiteral(SourceNodesOf(xlf.v, k),
                            SliceFrom(EncodedOf(k).encoded,
                                      FirstUnterminated(EncodedOf(k).encoded)))

\* C23 witness: "<p>See <b>A. B</b></p>" is cut after "A.", the first segment
\* keeps the open <pc> without its close, and its <source> holds the text
\* before the marker and the marker to the end as text
C23_OpenMarkerWrittenAsText ==
  /\ pc = "exported" /\ cell = HtmlCell(TwoSentencesInBold) /\ config.xliffVersion = "2.1"
  /\ Len(extracted[1].segments) = 2
  /\ FirstUnterminated(extracted[1].segments[1].source) = 4
  /\ SourceNodesOf(xlf.v, 1)
       = << XText("See "),
            XText(SliceFrom(extracted[1].segments[1].source, 4)) >>

\* the consumed position of mergeWorkbook before segment k of a unit: the
\* end of the last segment before k that was found in the unit's source
RECURSIVE ConsumedBefore(_, _)
ConsumedBefore(tu, k) ==
  IF k = 1 THEN 0
  ELSE IF LocateSegment(tu.source, tu.segments[k - 1], ConsumedBefore(tu, k - 1)) >= 0
  THEN LocateSegment(tu.source, tu.segments[k - 1], ConsumedBefore(tu, k - 1))
       + Len(tu.segments[k - 1].source)
  ELSE ConsumedBefore(tu, k - 1)

\* segment k of the unit cannot be found in its source from the consumed
\* position on
Unlocatable(tu, k) == LocateSegment(tu.source, tu.segments[k], ConsumedBefore(tu, k)) = -1

\* the resolved text of segment k: its effective text with the tokens of its
\* placeholder map replaced
ResolvedText(tu, k) ==
  Rehydrate(Effective(tu.segments[k]), PlaceholdersOf(tu.meta, tu.segments[k].id))

\* the gap text before segment k: none for a segment that cannot be found,
\* else the source text from the consumed position to the segment, or a
\* single space when there is none after an earlier segment
GapTextOf(tu, k) ==
  IF Unlocatable(tu, k) THEN ""
  ELSE IF LocateSegment(tu.source, tu.segments[k], ConsumedBefore(tu, k)) > ConsumedBefore(tu, k)
  THEN Slice(tu.source, ConsumedBefore(tu, k),
             LocateSegment(tu.source, tu.segments[k], ConsumedBefore(tu, k)))
  ELSE IF ConsumedBefore(tu, k) > 0 THEN " " ELSE ""

\* the texts of all segments in their order, each after its gap text, and
\* then the source from the consumed position on
InSegmentOrder(tu) ==
  Join([k \in DOMAIN tu.segments |-> GapTextOf(tu, k) \o ResolvedText(tu, k)])
  \o SliceFrom(tu.source, ConsumedBefore(tu, Len(tu.segments) + 1))

\* a plain unit merged with a segment whose source cannot be found
UnlocatableMerged ==
  /\ pc = "merged" /\ Plain
  /\ \E k \in DOMAIN units[1].segments : Unlocatable(units[1], k)

\* C24: when the source of a segment cannot be found in the unit's source
\* from the consumed position on, the merge still writes the cell; the
\* resolved text of that segment comes without gap text, the consumed
\* position stays where it was for the segments after it, and the resolved
\* texts of all segments come in the order of the segments
C24_UnlocatableSegmentAppended ==
  UnlocatableMerged => targetCell = Written(InSegmentOrder(units[1]))

\* C24 witness: the first of the two segments of "Hello world. How are you?"
\* was retyped; its target comes first without a gap, and the second
\* segment, found from position 0, comes after the source text before it
C24_RetypedSegmentMerged ==
  /\ UnlocatableMerged /\ Direct
  /\ cell.value = "Hello world. How are you?"
  /\ edit.v.kind = "retype" /\ edit.v.mask = {1}
  /\ Unlocatable(units[1], 1) /\ ConsumedBefore(units[1], 2) = 0
  /\ targetCell = Some("Hello world.Hello world. How are you?")

\* mergeWorkbook wrote a sheet whose one target column has no letter, to be
\* created after the source column all the units are of
AutoCreated ==
  /\ pc = "written" /\ listed.some /\ listed.v # <<>>
  /\ Len(sheetCfg.targetColumns) = 1 /\ sheetCfg.targetColumns[1].col = ""
  /\ PlacementOf(config) = "insertAfterSource"
  /\ \A i \in DOMAIN listed.v : colLetterToIndex(listed.v[i].col) = colLetterToIndex(listed.v[1].col)

\* the column after the source column of the units
NewColumn == colLetterToIndex(listed.v[1].col) + 1

\* the values of the sheet written without the column after the source column
AroundNewColumn ==
  ValuesOf([r \in DOMAIN outSheet.v.rows |->
              [k \in DOMAIN WithoutColumns(outSheet.v, {NewColumn})[r] |->
                 WithoutColumns(outSheet.v, {NewColumn})[r][k][2]]])

\* C25 (as stated): with an empty target column letter and placement
\* insertAfterSource the merge of one unit or more of a sheet inserts one
\* column, directly after the source column: the values to its right move by
\* one column, the new column holds nothing but the targets of the units, and
\* the target of every unit written is in it
C25_OneColumnInserted ==
  AutoCreated =>
    /\ AroundNewColumn = ValuesOf([r \in DOMAIN sheet.rows |-> sheet.rows[r].cells])
    /\ \A r \in DOMAIN outSheet.v.rows :
         CellText(outSheet.v, r, NewColumn) # "" =>
           \E i \in DOMAIN listed.v : listed.v[i].row = r
    /\ OverwriteOf(config) =>
         \A i \in DOMAIN listed.v : CellText(outSheet.v, listed.v[i].row, NewColumn) # ""

\* the part of C25 on one unit: the merge of the one unit of the book of the
\* merge options test inserts one column after the source column
C25_OneUnitOneColumn ==
  (AutoCreated /\ Len(listed.v) = 1) =>
    /\ AroundNewColumn = ValuesOf([r \in DOMAIN sheet.rows |-> sheet.rows[r].cells])
    /\ OverwriteOf(config) => CellText(outSheet.v, listed.v[1].row, NewColumn) # ""

\* two units of column A merged: a column inserted for each
C25_TwoUnitsTwoColumns ==
  /\ AutoCreated /\ Len(listed.v) = 2 /\ sheet.rows = TwoRowsRows
  /\ edit.v.kind = "twice" /\ OverwriteOf(config)

\* the operations on a workbook, after extract
OnBook == pc \in {"bookExtracted", "bookExported", "bookMerged", "bookFailed"}

\* the patterns of a list that compile, compiled
CompiledOf(inlineCodeRegexes) ==
  [k \in DOMAIN SelectSeq(inlineCodeRegexes, LAMBDA r : r \in ValidPatterns) |->
     NewRegExp(SelectSeq(inlineCodeRegexes, LAMBDA r : r \in ValidPatterns)[k], TRUE)]

\* the unit elements of the document exported
UnitElementsOf(doc) == doc.children[1].children

\* C26 (as stated): a pattern of the configuration that does not compile, an
\* inline code or a sheet name, makes neither extract nor export nor merge
\* throw, and the units are exported with the inline codes of their entry
\* that compile
C26_InvalidRegexNotFatal ==
  /\ book # NoBook => pc \notin {"failed", "bookFailed"}
  /\ (OnBook /\ xlf.some) =>
       \A i \in DOMAIN extracted :
         UnitElementsOf(xlf.v)[i] =
           UnitElement(extracted[i],
                       CompiledOf(ConfigOfUnit(config, book.sheets, extracted[i]).inlineCodeRegexes))

\* the part of C26 on extract and export: neither throws, and the inline
\* codes that compile are applied
C26_ExportNotFatal ==
  /\ book # NoBook => pc # "failed"
  /\ (OnBook /\ xlf.some) =>
       \A i \in DOMAIN extracted :
         UnitElementsOf(xlf.v)[i] =
           UnitElement(extracted[i],
                       CompiledOf(ConfigOfUnit(config, book.sheets, extracted[i]).inlineCodeRegexes))

\* a unit of the sheet Data2 exported under the entry whose first inline code
\* does not compile
C26_InvalidInlineCodeSkipped ==
  /\ pc = "bookExported" /\ extracted # <<>>
  /\ ConfigOfUnit(config, book.sheets, extracted[1]).inlineCodeRegexes = << "(", "%s" >>

\* the entries under which extractUnits selects the worksheet of a name
ExtractedUnder(name) ==
  { k \in DOMAIN book.sheets : normalizeSheetMatch(book.sheets[k].namePattern, name) }

\* the unit is of a worksheet extracted under entry k and no other
UnderOnly(u, k) == ExtractedUnder(u.sheetName) = {k}

\* the columns of the targets of the entries a worksheet is extracted under
TargetsUnder(name) ==
  { colLetterToIndex(book.sheets[k].targetColumns[j].col) :
      k \in ExtractedUnder(name), j \in {1} }

\* C29 (as stated): a unit extracted under one entry of the configuration is
\* segmented with the sourceLocale of that entry, exported with its
\* inlineCodeRegexes, and merged into its target columns only
C29_SameEntryInEveryStage ==
  OnBook =>
    /\ \A i \in DOMAIN extracted : \A k \in DOMAIN book.sheets :
         UnderOnly(extracted[i], k) =>
           /\ << extracted[i] >>
                = segmentUnits(Some(extracted[i]), WithSheetCfg(config, book.sheets, k)).units
           /\ xlf.some =>
                UnitElementsOf(xlf.v)[i]
                  = UnitElement(extracted[i], regexesForUnit(book.sheets[k].inlineCodeRegexes))
    /\ pc = "bookMerged" =>
         \A w \in DOMAIN book.worksheets : \A r \in 1..2, c \in 1..4 :
           CellText(outBook.v.worksheets[w], r, c) # CellText(book.worksheets[w], r, c)
             => c \in TargetsUnder(book.worksheets[w].name)

\* C29 for the entries whose pattern is anchored: the stages select alike
C29_AnchoredSelectAlike ==
  (OnBook /\ \A k \in DOMAIN book.sheets : Anchored(book.sheets[k].namePattern)) =>
    C29_SameEntryInEveryStage

\* a unit of the sheet Data2 merged under the entries Data and Data2: its
\* text is in column B and in column C
C29_MergedUnderTwoEntries ==
  /\ pc = "bookMerged" /\ Len(book.worksheets) = 1 /\ book.worksheets[1].name = "Data2"
  /\ Len(book.sheets) = 2
  /\ book.sheets[1].namePattern = "Data" /\ book.sheets[2].namePattern = "Data2"
  /\ Len(extracted) = 1 /\ Len(extracted[1].segments) = 1
  /\ CellText(outBook.v.worksheets[1], 2, 2) # ""
  /\ CellText(outBook.v.worksheets[1], 2, 3) # ""

\* the translation composeHtmlFromSkeleton was called on
Translation == MarkersEdited(TranslationOf(skeleton.v, edit.v.kind), edit.v.markers)

\* the values of the tokens of one of some types, in order
ValuesOfType(tokens, types) ==
  [k \in DOMAIN SelectSeq(tokens, LAMBDA t : t.type \in types) |->
     SelectSeq(tokens, LAMBDA t : t.type \in types)[k].value]

\* the literal of a token of the skeleton that is a tag or a marker
LiteralOf(token, sk) ==
  IF token.type = "tag" THEN token.value
  ELSE IF token.type = "io" THEN sk.inlineMap[ParseInt(token.id)].open
  ELSE sk.inlineMap[ParseInt(token.id)].close

\* the tags of the skeleton in order, each marker as the literal of its span
LiteralsOf(sk) ==
  [k \in DOMAIN SelectSeq(tokenizeSkeleton(sk.skeleton), LAMBDA t : t.type \in {"tag", "io", "ic"}) |->
     LiteralOf(SelectSeq(tokenizeSkeleton(sk.skeleton), LAMBDA t : t.type \in {"tag", "io", "ic"})[k], sk)]

\* no skeleton holds text outside its slots
SkeletonsHoldNoText ==
  skeleton.some => ValuesOfType(tokenizeSkeleton(skeleton.v.skeleton), {"text"}) = <<>>

\* C27: whatever the translator did with the markers, the tags of the
\* composed HTML are the tags of the skeleton in order, with the opening
\* literal of each inline span at its io marker and its closing literal at
\* its ic marker: one of each for every span, nested as in the skeleton; and
\* composeHtmlFromSkeleton returns
C27_InlineLiteralsAsSkeleton ==
  pc = "composed" =>
    /\ composed.some
    /\ ValuesOfType(tokenizeSkeleton(composed.v), {"tag"}) = LiteralsOf(skeleton.v)

\* C27 witness: the link of the sample composed from a translation whose
\* opening marker was moved to the end
C27_MovedMarkerComposed ==
  /\ pc = "composed" /\ edit.v.markers = "move" /\ edit.v.kind = "copy"
  /\ Translation = "Visit our shop[[ic:1]] today.[[io:1]]"
  /\ composed = Some("<div>Visit our shop<a href=\"/shop\" class=\"link\"></a> today.</div>")

\* C28: the text of the composed HTML outside its tags is the text of the
\* translation outside its io and ic markers: every chunk once, in the order
\* of the translation
C28_TranslatedTextKept ==
  pc = "composed" =>
    Join(ValuesOfType(tokenizeSkeleton(composed.v), {"text"}))
      = Join(ValuesOfType(tokenizeTranslation(Translation), {"text"}))

\* C28 witness: a translation with a marker written twice, whose text after
\* the second is appended after the last tag
C28_ResidualTextAppended ==
  /\ pc = "composed" /\ edit.v.markers = "dup" /\ edit.v.kind = "copy"
  /\ Translation = "Visit [[io:1]][[io:1]]our shop[[ic:1]] today."
  /\ composed = Some("<div>Visit <a href=\"/shop\" class=\"link\"></a></div>our shop today.")

\* C30 (as stated): two calls of pseudoTransform with the same text and
\* options return the same string, whatever was transformed before them
C30_PseudoTransformPure ==
  \A i, j \in DOMAIN calls : calls[i].text = calls[j].text => calls[i].out = calls[j].out

\* the part of C30 on texts without placeholders: the state of
\* PLACEHOLDER_RE a call leaves does not change what the next returns for
\* them
C30_PlainTextsPure ==
  \A i, j \in DOMAIN calls :
    (calls[i].text = calls[j].text /\ calls[i].text = "Hi") => calls[i].out = calls[j].out

\* the text "{0}" transformed twice in a row
C30_SameTextTwice ==
  /\ Len(calls) = 2 /\ calls[1].text = "{0}" /\ calls[2].text = "{0}"
  /\ calls[1].out # calls[2].out

====
